---- MODULE Spec2Model ----
(***************************************************************************)
(* Request admission and v2 streaming intake of apm-server (package        *)
(* beater): the concurrency limiter middleware and the v2 route handler    *)
(* with its NDJSON stream reader, batch reader and metadata reader.        *)
(***************************************************************************)
EXTENDS Integers, Sequences, FiniteSets, TLC

(***************************************************************************)
(* Bounds of the model.                                                    *)
(***************************************************************************)
\* number of concurrent requests sent through concurrencyLimitHandler
NumReqs == 3
\* largest value of Config.ConcurrentRequests that is tried
MaxPermits == 2
\* Config.MaxRequestQueueTime, in clock ticks
MaxRequestQueueTime == 2
\* largest number of lines that follow the first line of a v2 stream
MaxRecords == 22
\* number of requests sent through ipRateLimitHandler
NumRateReqs == 4
\* number of distinct source IPs
NumIPs == 2
\* largest value of the configured rate limit that is tried
MaxRateLimit == 1
\* largest size of the LRU cache that is tried where entries are evicted
MaxCacheSize == 1
\* longest Authorization header, in symbols
MaxHeaderLen == 4
\* longest secret token, in characters
MaxTokenLen == 2
\* longest Origin header, in characters
MaxOriginLen == 3
\* longest pattern of the allow-list, in characters
MaxPatternLen == 2
\* largest number of patterns in the allow-list
MaxAllowed == 2
\* longest decompressed request body, in bytes
MaxBodyLen == 6
\* most calls of streamResponse.ValidationError in a row
MaxValidationCalls == 10
\* most calls of sendStatus in a row
MaxCalls == 3
\* most lines of the body of a request to processStreamRequest
MaxPsLines == 3
\* largest batch size of processStreamRequest that is tried
MaxPsBatch == 2
\* the calls of the reporter are counted up to this number
MaxPsReports == 3
\* number of different validation error texts
NumErrorTexts == 6
\* most calls of streamResponse methods mixed freely
MaxSrOps == 3
\* largest count given to streamResponse.AddError
MaxCount == 2
\* longest Accept header, in tokens
MaxAcceptLen == 3
\* most metrics in a payload
MaxMetrics == 2
\* most samples in a metric
MaxSamples == 2

(***************************************************************************)
(* Program constants.                                                      *)
(***************************************************************************)
batchSize == 20

StatusAccepted == 202
StatusBadRequest == 400
StatusServiceUnavailable == 503
StatusMethodNotAllowed == 405
StatusRequestEntityTooLarge == 413
StatusTooManyRequests == 429
StatusOK == 200
StatusUnauthorized == 401
StatusForbidden == 403
validationErrorsLimit == 5
rateLimitBurstMultiplier == 2

Reqs == 1..NumReqs

VARIABLES
    \* ---- concurrencyLimitHandler ----
    ConcurrentRequests, \* capacity of the semaphore channel
    semaphore,          \* number of elements buffered in the semaphore channel
    pc,                 \* position of each request in the limiter's handler
    waited,             \* ticks elapsed since each request entered the select
    acquired,           \* sends on the semaphore performed by each request
    released,           \* receives from the semaphore performed by each request
    status,             \* status code written by the limiter for each request
    \* ---- v2Route.handler ----
    contentType,        \* Content-Type header contains "application/ndjson"
    stream,             \* lines of the request body, in order
    trailingNewline,    \* the last line of the body ends with '\n'
    pos,                \* number of lines consumed by NDJSONStreamReader
    hpc,                \* position of v2Route.handler
    i,                  \* loop counter of readBatch
    err,                \* err variable of readBatch
    eventables,         \* slice built by readBatch
    batchResp,          \* serverResponse returned by readBatch
    eof,                \* bool returned by readBatch
    reads,              \* number of calls of NDJSONStreamReader.Read
    reported,           \* payloads handed to report, in call order
    reportResults,      \* what report returned, call by call, and the reads made by then
    method,             \* method of the v2 request
    response,           \* serverResponse returned by v2Route.handler
    body,               \* response body written by sendStatus
    \* ---- ipRateLimitHandler ----
    rateLimit,          \* the configured rate limit
    cache,              \* the LRU cache: for each IP the limiter stored (0: none)
    limiters,           \* the rate.Limiter objects created so far: IP and tokens left
    rreq,               \* each request: position in the handler, IP, limiter it got
    cacheSize,          \* the number of entries the LRU cache holds at most
    evictList,          \* the IPs in the cache, the most recently used first
    \* ---- killSwitchHandler, authHandler, corsHandler ----
    mwCfg,              \* configuration: route enabled, secret token, allowed origins
    mwReq,              \* the request given to the middleware
    mwOut,              \* what the middleware did with it
    \* ---- one record per further component ----
    dec,                \* DecodeLimitJSONData: request, limited reader, json decoder
    v1,                 \* v1Route.handler: request, position, report calls, response
    raw,                \* handleRawModel: document, calls made, result
    sr,                 \* streamResponse: the aggregator and the outputs rendered
    ss,                 \* sendStatus: request, response given, what was written
    mp,                 \* metric.DecodePayload: payload and result
    ps,                 \* processStreamRequest: body left, batch, report calls, response
    ch                  \* the frontend chain: configuration, permits, tokens, requests

limiterVars == <<ConcurrentRequests, semaphore, pc, waited, acquired, released, status>>
streamVars == <<contentType, stream, trailingNewline, pos, hpc, i, err, eventables,
                batchResp, eof, reads, reported, reportResults, method, response, body>>
rateVars == <<rateLimit, cache, limiters, rreq, cacheSize, evictList>>
mwVars == <<mwCfg, mwReq, mwOut>>
compVars == <<dec, v1, raw, sr, ss, mp>>
extVars == <<compVars, ps, ch>>
vars == <<limiterVars, streamVars, rateVars, mwVars, extVars>>

Nil == "nil"

(***************************************************************************)
(* serverResponse values (code and wrapped error message).                 *)
(***************************************************************************)
zeroResponse == [code |-> 0, err |-> Nil, cause |-> Nil]
acceptedResponse == [code |-> StatusAccepted, err |-> Nil, cause |-> Nil]
cannotDecodeResponse(e) ==
    [code |-> StatusBadRequest, err |-> "data decoding error", cause |-> e]
cannotValidateResponse(e) ==
    [code |-> StatusBadRequest, err |-> "data validation error", cause |-> e]
tooManyConcurrentRequestsResponse ==
    [code |-> StatusServiceUnavailable, err |-> "timeout waiting to be processed",
     cause |-> Nil]
requestTooLargeResponse ==
    [code |-> StatusRequestEntityTooLarge, err |-> "request body too large", cause |-> Nil]
methodNotAllowedResponse ==
    [code |-> StatusMethodNotAllowed, err |-> "only POST requests are supported",
     cause |-> Nil]
okResponse == [code |-> StatusOK, err |-> Nil, cause |-> Nil]
forbiddenResponse(e) == [code |-> StatusForbidden, err |-> "forbidden request", cause |-> e]
unauthorizedResponse == [code |-> StatusUnauthorized, err |-> "invalid token", cause |-> Nil]
rateLimitedResponse ==
    [code |-> StatusTooManyRequests, err |-> "too many requests", cause |-> Nil]
serverShuttingDownResponse ==
    [code |-> StatusServiceUnavailable, err |-> "server is shutting down", cause |-> Nil]
fullQueueResponse ==
    [code |-> StatusServiceUnavailable, err |-> "queue is full", cause |-> Nil]

IsError(s) == s.code >= 400

(***************************************************************************)
(* concurrencyLimitHandler                                                 *)
(***************************************************************************)
\* a send on the buffered channel can proceed
CanSendOffByOne(len, cap) == len <= cap
CanSend(len, cap) == len < cap

\* the channel returned by time.After has fired
TimerNeverFires(elapsed) == elapsed > MaxRequestQueueTime
TimerFired(elapsed) == elapsed >= MaxRequestQueueTime

LimiterIdle ==
    /\ semaphore = 0
    /\ pc = [r \in Reqs |-> "new"]
    /\ waited = [r \in Reqs |-> 0]
    /\ acquired = [r \in Reqs |-> 0]
    /\ released = [r \in Reqs |-> 0]
    /\ status = [r \in Reqs |-> 0]

\* the request enters the handler function: t := time.Now(), then the select
Enter(r) ==
    /\ pc[r] = "new"
    /\ pc' = [pc EXCEPT ![r] = "select"]
    /\ UNCHANGED <<ConcurrentRequests, semaphore, waited, acquired, released, status>>
    /\ UNCHANGED <<streamVars, rateVars, mwVars, extVars>>

\* time passes for a request blocked in the select
Tick(r) ==
    /\ pc[r] = "select"
    /\ waited[r] < MaxRequestQueueTime
    /\ waited' = [waited EXCEPT ![r] = @ + 1]
    /\ UNCHANGED <<ConcurrentRequests, semaphore, pc, acquired, released, status>>
    /\ UNCHANGED <<streamVars, rateVars, mwVars, extVars>>

\* case semaphore <- struct{}{}: the wrapped handler starts
Acquire(r) ==
    /\ pc[r] = "select"
    /\ CanSend(semaphore, ConcurrentRequests)
    /\ semaphore' = semaphore + 1
    /\ acquired' = [acquired EXCEPT ![r] = @ + 1]
    /\ pc' = [pc EXCEPT ![r] = "serving"]
    /\ UNCHANGED <<ConcurrentRequests, waited, released, status>>
    /\ UNCHANGED <<streamVars, rateVars, mwVars, extVars>>

\* case <-time.After(MaxRequestQueueTime): 503
Timeout(r) ==
    /\ pc[r] = "select"
    /\ TimerFired(waited[r])
    /\ status' = [status EXCEPT ![r] = tooManyConcurrentRequestsResponse.code]
    /\ pc' = [pc EXCEPT ![r] = "rejected"]
    /\ UNCHANGED <<ConcurrentRequests, semaphore, waited, acquired, released>>
    /\ UNCHANGED <<streamVars, rateVars, mwVars, extVars>>

\* the deferred release(): <-semaphore
release(r) ==
    /\ semaphore > 0
    /\ semaphore' = semaphore - 1
    /\ released' = [released EXCEPT ![r] = @ + 1]

\* h.ServeHTTP returns, the deferred release runs
Return(r) ==
    /\ pc[r] = "serving"
    /\ release(r)
    /\ pc' = [pc EXCEPT ![r] = "returned"]
    /\ UNCHANGED <<ConcurrentRequests, waited, acquired, status>>
    /\ UNCHANGED <<streamVars, rateVars, mwVars, extVars>>

PanicNoRelease(r) ==
    /\ pc[r] = "serving"
    /\ pc' = [pc EXCEPT ![r] = "panicked"]
    /\ UNCHANGED <<ConcurrentRequests, semaphore, waited, acquired, released, status>>
    /\ UNCHANGED <<streamVars, rateVars, mwVars, extVars>>

\* h.ServeHTTP panics, the deferred release runs while the stack unwinds
Panic(r) ==
    /\ pc[r] = "serving"
    /\ release(r)
    /\ pc' = [pc EXCEPT ![r] = "panicked"]
    /\ UNCHANGED <<ConcurrentRequests, waited, acquired, status>>
    /\ UNCHANGED <<streamVars, rateVars, mwVars, extVars>>

(***************************************************************************)
(* v2 stream handler state before any request is handled.                  *)
(***************************************************************************)
NoBody == [format |-> "none", text |-> Nil, cause |-> Nil]

\* a Go slice of decoded events: the nil slice and the empty slice differ
NilSlice == [isNil |-> TRUE, items |-> <<>>]
EmptySlice == [isNil |-> FALSE, items |-> <<>>]

HandlerIdle ==
    /\ pos = 0
    /\ hpc = "start"
    /\ i = 0
    /\ err = Nil
    /\ eventables = NilSlice
    /\ batchResp = zeroResponse
    /\ eof = FALSE
    /\ reads = 0
    /\ reported = <<>>
    /\ reportResults = <<>>
    /\ response = zeroResponse
    /\ body = NoBody

(***************************************************************************)
(* ipRateLimitHandler state before any request is handled.                 *)
(***************************************************************************)
RateReqs == 1..NumRateReqs
IPs == 1..NumIPs

\* lru.New: an empty cache, no request yet
RateEmpty ==
    /\ cache = [ip \in IPs |-> 0]
    /\ evictList = <<>>
    /\ limiters = <<>>
    /\ rreq = [r \in RateReqs |-> [pc |-> "new", ip |-> 0, limiter |-> 0, code |-> 0]]

\* a cache with room for every IP that sends requests
RateIdle ==
    /\ cacheSize = NumIPs
    /\ RateEmpty

(***************************************************************************)
(* Middleware state before any request is handled.  Header values are      *)
(* sequences of characters; in an Authorization header the word "Bearer"   *)
(* is one symbol.                                                          *)
(***************************************************************************)
Unset == [set |-> FALSE, value |-> ""]
UnsetOrigin == [set |-> FALSE, value |-> <<>>]
Header(v) == [set |-> TRUE, value |-> v]

NoHeaders ==
    [acao |-> UnsetOrigin, maxAge |-> Unset, vary |-> Unset, allowMethods |-> Unset,
     allowHeaders |-> Unset, contentLength |-> Unset, contentType |-> Unset]

PlainRequest == [method |-> "POST", authorization |-> <<>>, origin |-> <<>>,
                 acceptsJSON |-> FALSE]
OpenConfig == [enabled |-> TRUE, secretToken |-> <<>>, allowOrigins |-> <<>>]
NoOutcome == [by |-> "none", invoked |-> FALSE, req |-> PlainRequest, code |-> 0,
              headers |-> NoHeaders, body |-> NoBody]

\* the further components before they are used
Unused == [pc |-> "unused"]

CompIdle ==
    /\ dec = Unused
    /\ v1 = Unused
    /\ raw = Unused
    /\ sr = Unused
    /\ ss = Unused
    /\ mp = Unused

ExtIdle ==
    /\ CompIdle
    /\ ps = Unused
    /\ ch = Unused

MwIdle ==
    /\ mwCfg = OpenConfig
    /\ mwReq = PlainRequest
    /\ mwOut = NoOutcome

InitLimiter ==
    /\ MwIdle
    /\ ExtIdle
    /\ ConcurrentRequests \in 1..MaxPermits
    /\ LimiterIdle
    /\ rateLimit = 1
    /\ RateIdle
    /\ contentType = TRUE
    /\ stream = <<>>
    /\ trailingNewline = FALSE
    /\ method = "POST"
    /\ HandlerIdle

NextLimiter ==
    \/ \E r \in Reqs : Enter(r)
    \/ \E r \in Reqs : Tick(r)
    \/ \E r \in Reqs : Acquire(r)
    \/ \E r \in Reqs : Timeout(r)
    \/ \E r \in Reqs : Return(r)
    \/ \E r \in Reqs : Panic(r)

SpecLimiter == InitLimiter /\ [][NextLimiter]_vars

\* time passes and a select with a ready case proceeds; nothing forces the
\* wrapped handler to return
SpecLimiterFair ==
    /\ SpecLimiter
    /\ \A r \in Reqs : WF_vars(Tick(r))
    /\ \A r \in Reqs : WF_vars(Timeout(r) \/ Acquire(r))

Serving == {r \in Reqs : pc[r] = "serving"}

\* C1: the number of requests executing inside the wrapped handler at the
\* same time never exceeds ConcurrentRequests, and each of them holds a
\* permit of its own.
C1_NeverMoreThanC ==
    /\ Cardinality(Serving) <= ConcurrentRequests
    /\ \A r \in Serving : acquired[r] - released[r] = 1

\* C1 witness: every permit is taken while another request waits in the select
C1_Witness ==
    /\ Cardinality(Serving) = ConcurrentRequests
    /\ \E r \in Reqs : pc[r] = "select"

\* C2: every request that entered the handler is eventually passed to the
\* wrapped handler or answered 503, also when the permits are never returned.
C2_EventuallyAnswered ==
    \A r \in Reqs :
        (pc[r] = "select") ~>
            \/ pc[r] \in {"serving", "returned", "panicked"}
            \/ pc[r] = "rejected" /\ status[r] = StatusServiceUnavailable
                 /\ waited[r] >= MaxRequestQueueTime

\* C2 witness: a request was answered 503 while every permit is still held
C2_Witness ==
    /\ Cardinality(Serving) = ConcurrentRequests
    /\ \E r \in Reqs : pc[r] = "rejected" /\ status[r] = StatusServiceUnavailable

\* C3: a permit is released exactly once when the wrapped handler returns or
\* panics, a request answered 503 neither acquires nor releases, the number
\* of permits held equals the number of requests inside the wrapped handler,
\* and with no request in flight every permit is free.
C3_PermitAccounting ==
    /\ semaphore = Cardinality(Serving)
    /\ \A r \in Reqs :
        /\ pc[r] \in {"returned", "panicked"} => acquired[r] = 1 /\ released[r] = 1
        /\ pc[r] = "serving" => acquired[r] = 1 /\ released[r] = 0
        /\ pc[r] \in {"new", "select", "rejected"} => acquired[r] = 0 /\ released[r] = 0
    /\ (\A r \in Reqs : pc[r] \notin {"select", "serving"}) => semaphore = 0

\* C3 witness: one request returned, one panicked, one was answered 503,
\* nothing is in flight
C3_Witness ==
    /\ \E r \in Reqs : pc[r] = "returned"
    /\ \E r \in Reqs : pc[r] = "panicked"
    /\ \E r \in Reqs : pc[r] = "rejected"
    /\ semaphore = 0

(***************************************************************************)
(* The request body of a v2 request, line by line.  A line is described by *)
(* what the decoders make of it:                                           *)
(*   kind  "ok"          a JSON object that passes every check             *)
(*         "augmentfail" a metadata object the request decoder rejects     *)
(*         "schemafail"  a JSON object whose value fails schema validation *)
(*         "decodefail"  a JSON object whose value fails model decoding    *)
(*         "badjson"     not a JSON object                                 *)
(*         "blank"       an empty line                                     *)
(*         "ioerr"       the underlying reader fails here                  *)
(*         "toolarge"    the byte limit of the reader is exceeded here     *)
(*   key   the top-level key of the object                                 *)
(*   id    the position of the line after the first line                   *)
(***************************************************************************)
Models == <<"transaction", "span", "metric", "error">>
ModelKeys == {Models[k] : k \in 1..Len(Models)}

NilDoc == [kind |-> Nil, key |-> Nil, id |-> 0]

MetadataLine(k) == [kind |-> k, key |-> "metadata", id |-> 0]
RecordLine(k, j) == [kind |-> k, key |-> Models[((j - 1) % Len(Models)) + 1], id |-> j]
UnknownLine(j) == [kind |-> "ok", key |-> "none", id |-> j]

FirstLines ==
    {MetadataLine(k) : k \in {"ok", "augmentfail", "schemafail", "decodefail",
                              "badjson", "blank", "ioerr", "toolarge"}}
        \cup {RecordLine("ok", 1)}

BadRecordKinds == {"schemafail", "decodefail", "badjson", "blank", "ioerr", "toolarge"}

\* n lines after the first line, all well-formed records
GoodRecords(n) == [j \in 1..n |-> RecordLine("ok", j)]

\* the bodies tried: a first line, then n record lines of which at most one,
\* at any position, is not a well-formed record
\* the lines that are not a well-formed record, at position p
BadRecords(p) == {RecordLine(k, p) : k \in BadRecordKinds} \cup {UnknownLine(p)}

\* n lines after the first line f, the one at position p replaced by b
WithBadRecord(f, n, p, b) == <<f>> \o [GoodRecords(n) EXCEPT ![p] = b]

Bodies ==
    {<<>>} \cup
    {<<f>> \o GoodRecords(n) : f \in FirstLines, n \in 0..MaxRecords} \cup
    UNION {UNION {{WithBadRecord(f, n, p, b) : f \in FirstLines, b \in BadRecords(p)} :
                    p \in 1..n} : n \in 1..MaxRecords}

(***************************************************************************)
(* Errors.                                                                 *)
(***************************************************************************)
EOF == "EOF"
\* errors.Wrap(e, "data read error"): a new error value, never equal to e
WrapDataReadError(e) == IF e = EOF THEN "data read error: EOF"
                        ELSE "data read error: " \o e

(***************************************************************************)
(* NDJSONStreamReader                                                      *)
(***************************************************************************)
\* bufio.Reader.ReadBytes('\n') with p lines consumed so far
ReadBytes(body0, nl, p) ==
    IF p >= Len(body0)
    THEN [buf |-> NilDoc, readErr |-> EOF, pos |-> p]
    ELSE IF body0[p + 1].kind = "ioerr"
    THEN [buf |-> NilDoc, readErr |-> "read error", pos |-> p + 1]
    ELSE IF body0[p + 1].kind = "toolarge"
    THEN [buf |-> NilDoc, readErr |-> "http: request body too large", pos |-> p + 1]
    ELSE [buf |-> body0[p + 1],
          readErr |-> IF p + 1 = Len(body0) /\ ~nl THEN EOF ELSE Nil,
          pos |-> p + 1]

\* decoder.DecodeJSONData
DecodeJSONData(buf) ==
    IF buf = NilDoc \/ buf.kind = "blank"
    THEN [decoded |-> NilDoc, err |-> WrapDataReadError(EOF)]
    ELSE IF buf.kind = "badjson"
    THEN [decoded |-> NilDoc, err |-> WrapDataReadError("invalid character")]
    ELSE [decoded |-> buf, err |-> Nil]

\* Read that takes a line it cannot decode for an empty line
ReadSwallowsDecodeError(body0, nl, p) ==
    LET rb == ReadBytes(body0, nl, p)
        dj == DecodeJSONData(rb.buf)
    IN  IF rb.readErr # Nil /\ rb.readErr # EOF
        THEN [doc |-> NilDoc, err |-> rb.readErr, pos |-> rb.pos]
        ELSE IF dj.err # Nil
        THEN [doc |-> NilDoc, err |-> Nil, pos |-> rb.pos]
        ELSE [doc |-> dj.decoded, err |-> rb.readErr, pos |-> rb.pos]

\* NDJSONStreamReader.Read
Read(body0, nl, p) ==
    LET rb == ReadBytes(body0, nl, p)
        dj == DecodeJSONData(rb.buf)
    IN  IF rb.readErr # Nil /\ rb.readErr # EOF
        THEN [doc |-> NilDoc, err |-> rb.readErr, pos |-> rb.pos]
        ELSE IF dj.err # Nil
        THEN [doc |-> NilDoc, err |-> dj.err, pos |-> rb.pos]
        ELSE [doc |-> dj.decoded, err |-> rb.readErr, pos |-> rb.pos]

\* StreamDecodeLimitJSONData
StreamDecodeLimitJSONData(ct) ==
    IF ~ct THEN "invalid content type" ELSE Nil

(***************************************************************************)
(* v2Route                                                                 *)
(***************************************************************************)
\* v2Route.handleRawModel
handleRawModel(rawModel) ==
    IF rawModel.key \in ModelKeys
    THEN IF rawModel.kind = "schemafail"
         THEN [tr |-> 0, resp |-> cannotValidateResponse("schema")]
         ELSE IF rawModel.kind = "decodefail"
         THEN [tr |-> rawModel.id, resp |-> cannotDecodeResponse("model")]
         ELSE [tr |-> rawModel.id, resp |-> zeroResponse]
    ELSE [tr |-> 0, resp |-> cannotValidateResponse("did not recognize object type")]

readMetadataSkipsValidation(body0, nl, p) ==
    LET rd == Read(body0, nl, p)
    IN  IF rd.err # Nil
        THEN [ok |-> FALSE, resp |-> cannotDecodeResponse(rd.err), pos |-> rd.pos]
        ELSE IF rd.doc.key # "metadata"
        THEN [ok |-> FALSE, resp |-> cannotValidateResponse("invalid metadata format"),
              pos |-> rd.pos]
        ELSE IF rd.doc.kind = "augmentfail"
        THEN [ok |-> FALSE, resp |-> cannotDecodeResponse("augment"), pos |-> rd.pos]
        ELSE IF rd.doc.kind = "decodefail"
        THEN [ok |-> FALSE, resp |-> cannotDecodeResponse("metadata"), pos |-> rd.pos]
        ELSE [ok |-> TRUE, resp |-> zeroResponse, pos |-> rd.pos]

\* v2Route.readMetadata
readMetadata(body0, nl, p) ==
    LET rd == Read(body0, nl, p)
    IN  IF rd.err # Nil
        THEN [ok |-> FALSE, resp |-> cannotDecodeResponse(rd.err), pos |-> rd.pos]
        ELSE IF rd.doc.key # "metadata"
        THEN [ok |-> FALSE, resp |-> cannotValidateResponse("invalid metadata format"),
              pos |-> rd.pos]
        ELSE IF rd.doc.kind = "augmentfail"
        THEN [ok |-> FALSE, resp |-> cannotDecodeResponse("augment"), pos |-> rd.pos]
        ELSE IF rd.doc.kind = "schemafail"
        THEN [ok |-> FALSE, resp |-> cannotValidateResponse("schema"), pos |-> rd.pos]
        ELSE IF rd.doc.kind = "decodefail"
        THEN [ok |-> FALSE, resp |-> cannotDecodeResponse("metadata"), pos |-> rd.pos]
        ELSE [ok |-> TRUE, resp |-> zeroResponse, pos |-> rd.pos]

\* the body sendStatus writes for a serverResponse
sendStatus(res) ==
    IF res.err = Nil THEN NoBody
    ELSE [format |-> "error", text |-> res.err, cause |-> res.cause]

\* v2Route.handler returns res and v2Route.Handler sends it
Finish(res) ==
    /\ hpc' = "done"
    /\ response' = res
    /\ body' = sendStatus(res)

\* v2Route.handler up to the call of readMetadata
StartHandler ==
    /\ hpc = "start"
    /\ LET e == StreamDecodeLimitJSONData(contentType)
       IN  IF e # Nil
           THEN Finish(cannotDecodeResponse(e))
           ELSE hpc' = "readMetadata" /\ UNCHANGED <<response, body>>
    /\ UNCHANGED <<contentType, stream, trailingNewline, pos, i, err, eventables,
                   batchResp, eof, reads, reported, reportResults, method>>
    /\ UNCHANGED <<limiterVars, rateVars, mwVars, extVars>>

\* v2Route.handler: readMetadata and the test of its response
ReadMetadata ==
    /\ hpc = "readMetadata"
    /\ LET m == readMetadata(stream, trailingNewline, pos)
       IN  /\ pos' = m.pos
           /\ reads' = reads + 1
           /\ IF IsError(m.resp)
              THEN Finish(m.resp) /\ UNCHANGED <<i, err, eventables>>
              ELSE /\ hpc' = "readBatch"
                   /\ i' = 0
                   /\ err' = Nil
                   /\ eventables' = EmptySlice
                   /\ UNCHANGED <<response, body>>
    /\ UNCHANGED <<contentType, stream, trailingNewline, batchResp, eof, reported,
                   reportResults, method>>
    /\ UNCHANGED <<limiterVars, rateVars, mwVars, extVars>>

\* the condition of the for loop of readBatch
LoopCondOffByOne(n, e) == n <= batchSize /\ e = Nil
LoopCond(n, e) == n < batchSize /\ e = Nil

\* readBatch: one iteration of the for loop
ReadBatchIteration ==
    /\ hpc = "readBatch"
    /\ LoopCond(i, err)
    /\ LET rd == Read(stream, trailingNewline, pos)
           h == handleRawModel(rd.doc)
       IN  /\ pos' = rd.pos
           /\ reads' = reads + 1
           /\ err' = rd.err
           /\ IF rd.err # Nil /\ rd.err # EOF
              THEN /\ eventables' = NilSlice
                   /\ batchResp' = cannotDecodeResponse(rd.err)
                   /\ eof' = FALSE
                   /\ hpc' = "batchRead"
                   /\ i' = i
              ELSE IF rd.doc # NilDoc /\ IsError(h.resp)
              THEN /\ eventables' = NilSlice
                   /\ batchResp' = h.resp
                   /\ eof' = FALSE
                   /\ hpc' = "batchRead"
                   /\ i' = i
              ELSE /\ eventables' =
                        IF rd.doc # NilDoc
                        THEN [isNil |-> FALSE, items |-> Append(eventables.items, h.tr)]
                        ELSE eventables
                   /\ i' = i + 1
                   /\ UNCHANGED <<batchResp, eof, hpc>>
    /\ UNCHANGED <<contentType, stream, trailingNewline, reported, reportResults,
                   method, response, body>>
    /\ UNCHANGED <<limiterVars, rateVars, mwVars, extVars>>

\* readBatch: the loop is over, return eventables, serverResponse{}, err == io.EOF
ReadBatchReturn ==
    /\ hpc = "readBatch"
    /\ ~LoopCond(i, err)
    /\ batchResp' = zeroResponse
    /\ eof' = (err = EOF)
    /\ hpc' = "batchRead"
    /\ UNCHANGED <<contentType, stream, trailingNewline, pos, i, err, eventables,
                   reads, reported, reportResults, method, response, body>>
    /\ UNCHANGED <<limiterVars, rateVars, mwVars, extVars>>

\* the errors report can return: none, a full queue, a stopped publisher
ReportErrors == {Nil, "queue is full", "publisher is being stopped"}

\* the body of the for loop with the test "eventables != nil" left out
HandleBatchReportsNil ==
    /\ hpc = "batchRead"
    /\ reported' = Append(reported, eventables.items)
    /\ \E e \in ReportErrors :
           reportResults' = Append(reportResults, [err |-> e, reads |-> reads])
    /\ IF IsError(batchResp)
       THEN Finish(batchResp) /\ UNCHANGED <<i, err, eventables>>
       ELSE IF eof
       THEN Finish(acceptedResponse) /\ UNCHANGED <<i, err, eventables>>
       ELSE /\ hpc' = "readBatch"
            /\ i' = 0
            /\ err' = Nil
            /\ eventables' = EmptySlice
            /\ UNCHANGED <<response, body>>
    /\ UNCHANGED <<contentType, stream, trailingNewline, pos, batchResp, eof, reads,
                   method>>
    /\ UNCHANGED <<limiterVars, rateVars, mwVars, extVars>>

\* v2Route.handler: the body of the for loop after readBatch returned; the
\* value report returns is not looked at
HandleBatch ==
    /\ hpc = "batchRead"
    /\ reported' = IF ~eventables.isNil THEN Append(reported, eventables.items)
                   ELSE reported
    /\ IF ~eventables.isNil
       THEN \E e \in ReportErrors :
                reportResults' = Append(reportResults, [err |-> e, reads |-> reads])
       ELSE UNCHANGED reportResults
    /\ IF IsError(batchResp)
       THEN Finish(batchResp) /\ UNCHANGED <<i, err, eventables>>
       ELSE IF eof
       THEN Finish(acceptedResponse) /\ UNCHANGED <<i, err, eventables>>
       ELSE /\ hpc' = "readBatch"
            /\ i' = 0
            /\ err' = Nil
            /\ eventables' = EmptySlice
            /\ UNCHANGED <<response, body>>
    /\ UNCHANGED <<contentType, stream, trailingNewline, pos, batchResp, eof, reads,
                   method>>
    /\ UNCHANGED <<limiterVars, rateVars, mwVars, extVars>>

\* the request methods tried
Methods == {"POST", "GET", "OPTIONS"}

InitV2 ==
    /\ MwIdle
    /\ ExtIdle
    /\ ConcurrentRequests = 1
    /\ LimiterIdle
    /\ rateLimit = 1
    /\ RateIdle
    /\ contentType \in BOOLEAN
    /\ stream \in Bodies
    /\ trailingNewline \in BOOLEAN
    /\ method \in Methods
    /\ HandlerIdle

NextV2 ==
    \/ StartHandler
    \/ ReadMetadata
    \/ ReadBatchIteration
    \/ ReadBatchReturn
    \/ HandleBatch

SpecV2 == InitV2 /\ [][NextV2]_vars

(***************************************************************************)
(* Properties of the v2 stream handler.                                    *)
(***************************************************************************)
RECURSIVE Flatten(_)
\* the concatenation of the reported payloads, in call order
Flatten(bs) == IF bs = <<>> THEN <<>> ELSE Head(bs) \o Flatten(Tail(bs))

\* the ids of the lines that follow the first line, in stream order
RecordIds == [j \in 1..(Len(stream) - 1) |-> stream[j + 1].id]

IsPrefix(s, t) == Len(s) <= Len(t) /\ \A k \in 1..Len(s) : s[k] = t[k]

\* the line is a well-formed record of a recognized type
WellFormed(l) == l.kind = "ok" /\ l.key \in ModelKeys

\* the line is a JSON object that fails schema validation or record decoding
FailsAsDocument(l) ==
    \/ l.kind \in {"schemafail", "decodefail"} /\ l.key \in ModelKeys
    \/ l.kind = "ok" /\ l.key = "none"

\* a valid metadata line followed by well-formed record lines only
ValidStream ==
    /\ contentType
    /\ Len(stream) >= 1
    /\ stream[1] = MetadataLine("ok")
    /\ \A j \in 2..Len(stream) : WellFormed(stream[j])

\* C4: a valid metadata line followed by 1..batchSize well-formed records,
\* with or without a final newline, is answered 202 and exactly those
\* records are handed to the reporter.
C4_ValidSingleBatchAccepted ==
    (hpc = "done" /\ ValidStream /\ Len(stream) - 1 \in 1..batchSize)
        => /\ response = acceptedResponse
           /\ Flatten(reported) = RecordIds

\* C5: a record line that fails schema validation or record decoding does
\* not abort the request: the records on the other lines are still read and
\* submitted and the final status is 202.
C5_DocumentFailureDoesNotAbort ==
    (/\ hpc = "done"
     /\ contentType
     /\ Len(stream) >= 2
     /\ stream[1] = MetadataLine("ok")
     /\ \E j \in 2..Len(stream) : FailsAsDocument(stream[j])
     /\ \A j \in 2..Len(stream) : WellFormed(stream[j]) \/ FailsAsDocument(stream[j]))
        => /\ response.code = StatusAccepted
           /\ reads >= Len(stream)
           /\ \A j \in 2..Len(stream) :
                WellFormed(stream[j]) =>
                    \E k \in 1..Len(Flatten(reported)) : Flatten(reported)[k] = stream[j].id

\* C6: for a metadata line, one valid transaction and one schema-invalid
\* record the response is the serialized streamResponse with accepted=1,
\* invalid=1, dropped=0 and status 202.
C6_ResponseIsStreamResponse ==
    (/\ hpc = "done"
     /\ contentType
     /\ stream = <<MetadataLine("ok"), RecordLine("ok", 1), RecordLine("schemafail", 2)>>)
        => /\ response.code = StatusAccepted
           /\ body.format = "streamResponse"
           /\ Len(Flatten(reported)) = 1

\* C7: a document that Read returns together with io.EOF (the last line has
\* no final newline) is processed as a valid document by readMetadata and by
\* readBatch: the end of the stream is not taken for a failure.
C7_DocumentWithEOFKept ==
    (hpc = "done" /\ ValidStream /\ ~trailingNewline)
        => /\ ~IsError(response)
           /\ Flatten(reported) = RecordIds

\* the first line cannot be read or parsed, has no metadata object, or fails
\* augmentation, schema validation or decoding
FirstLineFails ==
    \/ stream = <<>>
    \/ Len(stream) >= 1 /\ stream[1] # MetadataLine("ok")

\* C8: when the first line of the stream fails, the handler returns an error
\* status and the reporter is never called.
C8_MetadataFailureFailsRequest ==
    FirstLineFails =>
        /\ reported = <<>>
        /\ hpc = "done" => IsError(response)
        /\ hpc \in {"start", "readMetadata", "done"}

\* C8 witness: the metadata line failed schema validation, records follow,
\* the request was answered 400 and nothing was reported
C8_Witness ==
    /\ hpc = "done"
    /\ contentType
    /\ Len(stream) > 2
    /\ stream[1] = MetadataLine("schemafail")
    /\ response = cannotValidateResponse("schema")
    /\ reported = <<>>

\* C9: the payloads handed to the reporter, concatenated in call order, are
\* a prefix of the stream's records in stream order, and every payload holds
\* at most batchSize records.
C9_BatchesInStreamOrder ==
    /\ IsPrefix(Flatten(reported), RecordIds)
    /\ \A k \in 1..Len(reported) : Len(reported[k]) <= batchSize

\* C9 witness: a full batch and then a second batch were reported
C9_Witness ==
    /\ hpc = "done"
    /\ Len(reported) = 2
    /\ Len(reported[1]) = batchSize
    /\ Len(reported[2]) >= 1
    /\ Flatten(reported) = RecordIds

\* C10: when the stream ends in the middle of a batch, the records read so
\* far are handed to the reporter before the handler returns.
C10_PartialBatchReported ==
    (hpc = "done" /\ ValidStream /\ (Len(stream) - 1) % batchSize # 0)
        => /\ Len(reported) >= 1
           /\ Len(reported[Len(reported)]) = (Len(stream) - 1) % batchSize
           /\ Flatten(reported) = RecordIds

\* C11: once report has answered that the publisher is being stopped, the
\* handler reads nothing more, submits nothing more and returns the 503
\* server-is-shutting-down response.
C11_ShutdownAborts ==
    \A k \in 1..Len(reportResults) :
        reportResults[k].err = "publisher is being stopped"
            => /\ k = Len(reportResults)
               /\ reads = reportResults[k].reads
               /\ hpc = "done"
               /\ response = serverShuttingDownResponse

\* C19: a v2 request with a method other than POST (here one that carries
\* the ndjson content type) is answered 405 and nothing is read from its
\* body or handed to the reporter.
C19_NonPostRejected ==
    (method # "POST" /\ contentType)
        => /\ reads = 0
           /\ reported = <<>>
           /\ hpc = "done" => response = methodNotAllowedResponse

\* the byte limit is exceeded at line j and every line before it is fine
TooLargeAt(j) ==
    /\ stream[j].kind = "toolarge"
    /\ j > 1 => stream[1] = MetadataLine("ok")
    /\ \A m \in 2..(j - 1) : WellFormed(stream[m])

\* C20: a v2 request whose body exceeds the byte limit is answered 413
\* (request body too large).
C20_TooLargeIs413 ==
    (hpc = "done" /\ contentType /\ \E j \in 1..Len(stream) : TooLargeAt(j))
        => response = requestTooLargeResponse

(***************************************************************************)
(* ipRateLimitHandler.  The LRU cache holds rateLimitCacheSize (1000)      *)
(* entries, more than the IPs of the model, so nothing is evicted.  Every  *)
(* method of the cache and Limiter.Allow are atomic; deny is not.  Tokens  *)
(* are not refilled.                                                       *)
(***************************************************************************)
\* rate.NewLimiter(rate.Limit(rateLimit), rateLimit*rateLimitBurstMultiplier):
\* the tokens of a new limiter
NewLimiterNoBurst(n) == n
NewLimiter(n) == n * rateLimitBurstMultiplier

\* the requests are interchangeable: they arrive in the order of their numbers
RateEnter(r, ip) ==
    /\ rreq[r].pc = "new"
    /\ \A q \in RateReqs : q < r => rreq[q].pc # "new"
    /\ rreq' = [rreq EXCEPT ![r] = [@ EXCEPT !.pc = "contains", !.ip = ip]]
    /\ UNCHANGED <<rateLimit, cache, limiters, cacheSize, evictList>>
    /\ UNCHANGED <<limiterVars, streamVars, mwVars, extVars>>

\* a request arrives when no other request is inside the handler
RateEnterSeq(r, ip) ==
    /\ \A q \in RateReqs : rreq[q].pc \in {"new", "passed", "denied", "panicked"}
    /\ RateEnter(r, ip)

\* deny: if !cache.Contains(ip)
RateContains(r) ==
    /\ rreq[r].pc = "contains"
    /\ rreq' = [rreq EXCEPT ![r].pc = IF cache[rreq[r].ip] # 0 THEN "get" ELSE "add"]
    /\ UNCHANGED <<rateLimit, cache, limiters, cacheSize, evictList>>
    /\ UNCHANGED <<limiterVars, streamVars, mwVars, extVars>>

\* the list without the key, the key put in front (MoveToFront, PushFront)
ToFront(list, ip) == <<ip>> \o SelectSeq(list, LAMBDA k : k # ip)

\* deny: cache.Add(ip, rate.NewLimiter(...)): the value of a key the cache
\* holds is replaced; a new key is put in front and, when the cache is then
\* over its size, the least recently used key is removed
RateAdd(r) ==
    /\ rreq[r].pc = "add"
    /\ limiters' = Append(limiters, [ip |-> rreq[r].ip, tokens |-> NewLimiter(rateLimit)])
    /\ LET list == ToFront(evictList, rreq[r].ip)
           oldest == list[Len(list)]
       IN  IF Len(list) > cacheSize
           THEN /\ evictList' = SubSeq(list, 1, Len(list) - 1)
                /\ cache' = [cache EXCEPT ![rreq[r].ip] = Len(limiters) + 1,
                                          ![oldest] = 0]
           ELSE /\ evictList' = list
                /\ cache' = [cache EXCEPT ![rreq[r].ip] = Len(limiters) + 1]
    /\ rreq' = [rreq EXCEPT ![r].pc = "get"]
    /\ UNCHANGED <<rateLimit, cacheSize>>
    /\ UNCHANGED <<limiterVars, streamVars, mwVars, extVars>>

\* deny: limiter, _ = cache.Get(ip)
RateGet(r) ==
    /\ rreq[r].pc = "get"
    /\ rreq' = [rreq EXCEPT ![r] = [@ EXCEPT !.pc = "allow", !.limiter = cache[rreq[r].ip]]]
    /\ evictList' = IF cache[rreq[r].ip] # 0 THEN ToFront(evictList, rreq[r].ip)
                    ELSE evictList
    /\ UNCHANGED <<rateLimit, cache, limiters, cacheSize>>
    /\ UNCHANGED <<limiterVars, streamVars, mwVars, extVars>>

\* deny: !limiter.(*rate.Limiter).Allow(), then 429 or the wrapped handler;
\* the type assertion on the nil value of a missing entry panics
RateAllow(r) ==
    /\ rreq[r].pc = "allow"
    /\ LET l == rreq[r].limiter
       IN  IF l = 0
           THEN /\ rreq' = [rreq EXCEPT ![r].pc = "panicked"]
                /\ UNCHANGED limiters
           ELSE IF limiters[l].tokens > 0
           THEN /\ limiters' = [limiters EXCEPT ![l].tokens = @ - 1]
                /\ rreq' = [rreq EXCEPT ![r].pc = "passed"]
           ELSE /\ rreq' = [rreq EXCEPT ![r] =
                                [@ EXCEPT !.pc = "denied", !.code = rateLimitedResponse.code]]
                /\ UNCHANGED limiters
    /\ UNCHANGED <<rateLimit, cache, cacheSize, evictList>>
    /\ UNCHANGED <<limiterVars, streamVars, mwVars, extVars>>

InitRate ==
    /\ MwIdle
    /\ ExtIdle
    /\ ConcurrentRequests = 1
    /\ LimiterIdle
    /\ contentType = TRUE
    /\ stream = <<>>
    /\ trailingNewline = FALSE
    /\ method = "POST"
    /\ HandlerIdle
    /\ rateLimit \in 1..MaxRateLimit
    /\ RateIdle

RateSteps ==
    \/ \E r \in RateReqs : RateContains(r)
    \/ \E r \in RateReqs : RateAdd(r)
    \/ \E r \in RateReqs : RateGet(r)
    \/ \E r \in RateReqs : RateAllow(r)

NextRate ==
    \/ \E r \in RateReqs, ip \in IPs : RateEnter(r, ip)
    \/ RateSteps

NextRateSeq ==
    \/ \E r \in RateReqs, ip \in IPs : RateEnterSeq(r, ip)
    \/ RateSteps

\* a cache smaller than the number of IPs that send requests
InitRateLRU ==
    /\ MwIdle
    /\ ExtIdle
    /\ ConcurrentRequests = 1
    /\ LimiterIdle
    /\ contentType = TRUE
    /\ stream = <<>>
    /\ trailingNewline = FALSE
    /\ method = "POST"
    /\ HandlerIdle
    /\ rateLimit \in 1..MaxRateLimit
    /\ cacheSize \in 1..MaxCacheSize
    /\ RateEmpty

\* concurrent requests
SpecRate == InitRate /\ [][NextRate]_vars
\* concurrent requests from more IPs than the cache holds
SpecRateLRU == InitRateLRU /\ [][NextRate]_vars
\* one request after the other
SpecRateSeq == InitRate /\ [][NextRateSeq]_vars

Min(a, b) == IF a < b THEN a ELSE b

FinishedFrom(ip) == {r \in RateReqs : rreq[r].ip = ip /\ rreq[r].pc \in {"passed", "denied"}}
PassedFrom(ip) == {r \in RateReqs : rreq[r].ip = ip /\ rreq[r].pc = "passed"}
DeniedFrom(ip) == {r \in RateReqs : rreq[r].ip = ip /\ rreq[r].pc = "denied"}
LimitersOf(ip) == {k \in 1..Len(limiters) : limiters[k].ip = ip}

C13_OneBucketPerIP ==
    /\ \A ip \in IPs : Cardinality(LimitersOf(ip)) <= 1
    /\ \A r \in RateReqs : rreq[r].limiter # 0 => rreq[r].limiter = cache[rreq[r].ip]

(***************************************************************************)
(* killSwitchHandler, authHandler, corsHandler: each wraps a handler h and *)
(* either calls h with the request or answers itself through sendStatus.   *)
(***************************************************************************)
supportedHeaders == "Content-Type, Content-Encoding, Accept"
supportedMethods == "POST, OPTIONS"

\* the strings of at most n symbols over an alphabet
Strings(alphabet, n) == UNION {[1..k -> alphabet] : k \in 0..n}

\* sendStatus: the headers, the status code and the body of an own answer
Answer(who, req, hdrs, res) ==
    [by |-> who, invoked |-> FALSE, req |-> req, code |-> res.code,
     headers |-> [hdrs EXCEPT !.contentType =
                    Header(IF req.acceptsJSON THEN "application/json"
                           ELSE "text/plain; charset=utf-8")],
     body |-> sendStatus(res)]

\* h.ServeHTTP(w, r): the wrapped handler gets the request and the headers set so far
Serve(who, req, hdrs) ==
    [by |-> who, invoked |-> TRUE, req |-> req, code |-> 0, headers |-> hdrs,
     body |-> NoBody]

\* ---- killSwitchHandler ----
killSwitchHandlerInverted(killSwitch, req) ==
    IF ~killSwitch
    THEN Serve("killSwitch", req, NoHeaders)
    ELSE Answer("killSwitch", req, NoHeaders, forbiddenResponse("endpoint is disabled"))

\* killSwitchHandler; its parameter is true when the route is enabled
killSwitchHandler(killSwitch, req) ==
    IF killSwitch
    THEN Serve("killSwitch", req, NoHeaders)
    ELSE Answer("killSwitch", req, NoHeaders, forbiddenResponse("endpoint is disabled"))

\* ---- authHandler ----
RECURSIVE Split(_)
\* strings.Split(s, " ")
Split(str) ==
    IF \A k \in 1..Len(str) : str[k] # " "
    THEN <<str>>
    ELSE LET k == CHOOSE k \in 1..Len(str) :
                    str[k] = " " /\ \A m \in 1..(k - 1) : str[m] # " "
         IN  <<SubSeq(str, 1, k - 1)>> \o Split(SubSeq(str, k + 1, Len(str)))

\* subtle.ConstantTimeCompare(x, y) == 1
ConstantTimeCompare(x, y) == Len(x) = Len(y) /\ \A k \in 1..Len(x) : x[k] = y[k]

\* isAuthorized
isAuthorized(req, secretToken) ==
    IF secretToken = <<>>
    THEN TRUE
    ELSE LET parts == Split(req.authorization)
         IN  IF Len(parts) # 2 \/ parts[1] # <<"Bearer">>
             THEN FALSE
             ELSE ConstantTimeCompare(parts[2], secretToken)

\* authHandler
authHandler(secretToken, req) ==
    IF ~isAuthorized(req, secretToken)
    THEN Answer("auth", req, NoHeaders, unauthorizedResponse)
    ELSE Serve("auth", req, NoHeaders)

\* ---- corsHandler ----
RECURSIVE Glob(_, _)
\* glob.Glob(pattern, subj): "*" stands for any run of characters
Glob(pattern, subj) ==
    IF pattern = <<>>
    THEN subj = <<>>
    ELSE IF Head(pattern) = "*"
    THEN \E k \in 0..Len(subj) : Glob(Tail(pattern), SubSeq(subj, k + 1, Len(subj)))
    ELSE subj # <<>> /\ Head(subj) = Head(pattern) /\ Glob(Tail(pattern), Tail(subj))

isAllowedFirstOnly(allowedOrigins, origin) ==
    allowedOrigins # <<>> /\ Glob(Head(allowedOrigins), origin)

RECURSIVE isAllowed(_, _)
\* corsHandler: isAllowed, the loop over the allowed origins
isAllowed(allowedOrigins, origin) ==
    IF allowedOrigins = <<>>
    THEN FALSE
    ELSE IF Glob(Head(allowedOrigins), origin)
    THEN TRUE
    ELSE isAllowed(Tail(allowedOrigins), origin)

\* the headers of the answer to OPTIONS, but for Access-Control-Allow-Origin
PreflightHeaders ==
    [NoHeaders EXCEPT !.maxAge = Header("3600"),
                      !.vary = Header("Origin"),
                      !.allowMethods = Header(supportedMethods),
                      !.allowHeaders = Header(supportedHeaders),
                      !.contentLength = Header("0")]

corsHandlerAlwaysEchoes(allowedOrigins, req) ==
    LET origin == req.origin
        validOrigin == isAllowed(allowedOrigins, origin)
    IN  IF req.method = "OPTIONS"
        THEN Answer("cors", req, [PreflightHeaders EXCEPT !.acao = Header(origin)],
                    okResponse)
        ELSE IF validOrigin
        THEN Serve("cors", req, [NoHeaders EXCEPT !.acao = Header(origin)])
        ELSE Answer("cors", req, NoHeaders, forbiddenResponse("origin is not allowed"))

\* corsHandler
corsHandler(allowedOrigins, req) ==
    LET origin == req.origin
        validOrigin == isAllowed(allowedOrigins, origin)
    IN  IF req.method = "OPTIONS"
        THEN Answer("cors", req,
                    IF validOrigin
                    THEN [PreflightHeaders EXCEPT !.acao = Header(origin)]
                    ELSE PreflightHeaders,
                    okResponse)
        ELSE IF validOrigin
        THEN Serve("cors", req, [NoHeaders EXCEPT !.acao = Header(origin)])
        ELSE Answer("cors", req, NoHeaders, forbiddenResponse("origin is not allowed"))

\* ---- the inputs tried ----
AuthHeaders == Strings({"Bearer", " ", "x", "y"}, MaxHeaderLen)
Tokens == Strings({"x", "y", " "}, MaxTokenLen)
Origins == Strings({"a", "b"}, MaxOriginLen)
Patterns == Strings({"a", "*"}, MaxPatternLen)
AllowLists == UNION {[1..k -> Patterns] : k \in 0..MaxAllowed}

OthersIdle ==
    /\ ExtIdle
    /\ ConcurrentRequests = 1
    /\ LimiterIdle
    /\ contentType = TRUE
    /\ stream = <<>>
    /\ trailingNewline = FALSE
    /\ method = "POST"
    /\ HandlerIdle
    /\ rateLimit = 1
    /\ RateIdle

\* a request arrives at killSwitchHandler
KillSwitchServe ==
    /\ mwOut.by = "none"
    /\ mwOut' = killSwitchHandler(mwCfg.enabled, mwReq)
    /\ UNCHANGED <<mwCfg, mwReq>>
    /\ UNCHANGED <<limiterVars, streamVars, rateVars, extVars>>

\* a request arrives at authHandler
AuthServe ==
    /\ mwOut.by = "none"
    /\ mwOut' = authHandler(mwCfg.secretToken, mwReq)
    /\ UNCHANGED <<mwCfg, mwReq>>
    /\ UNCHANGED <<limiterVars, streamVars, rateVars, extVars>>

\* a request arrives at corsHandler
CorsServe ==
    /\ mwOut.by = "none"
    /\ mwOut' = corsHandler(mwCfg.allowOrigins, mwReq)
    /\ UNCHANGED <<mwCfg, mwReq>>
    /\ UNCHANGED <<limiterVars, streamVars, rateVars, extVars>>

InitKillSwitch ==
    /\ OthersIdle
    /\ mwCfg \in {[OpenConfig EXCEPT !.enabled = e] : e \in BOOLEAN}
    /\ mwReq \in [method : Methods, authorization : AuthHeaders, origin : {<<>>},
                  acceptsJSON : BOOLEAN]
    /\ mwOut = NoOutcome

InitAuth ==
    /\ OthersIdle
    /\ mwCfg \in {[OpenConfig EXCEPT !.secretToken = t] : t \in Tokens}
    /\ mwReq \in [method : {"POST"}, authorization : AuthHeaders, origin : {<<>>},
                  acceptsJSON : BOOLEAN]
    /\ mwOut = NoOutcome

InitCors ==
    /\ OthersIdle
    /\ mwCfg \in {[OpenConfig EXCEPT !.allowOrigins = a] : a \in AllowLists}
    /\ mwReq \in [method : Methods, authorization : {<<>>}, origin : Origins,
                  acceptsJSON : BOOLEAN]
    /\ mwOut = NoOutcome

SpecKillSwitch == InitKillSwitch /\ [][KillSwitchServe]_vars
SpecAuth == InitAuth /\ [][AuthServe]_vars
SpecCors == InitCors /\ [][CorsServe]_vars

\* C14: with an empty secret token every request goes to the wrapped
\* handler; with a non-empty one a request goes there exactly when its
\* Authorization header is "Bearer <token>", and any other is answered 401.
C14_BearerTokenOnly ==
    mwOut.by = "auth" =>
        IF mwCfg.secretToken = <<>>
        THEN mwOut.invoked
        ELSE /\ mwOut.invoked <=>
                    mwReq.authorization = <<"Bearer", " ">> \o mwCfg.secretToken
             /\ ~mwOut.invoked => mwOut.code = StatusUnauthorized

\* C15: a disabled route answers every request 403 without calling the
\* wrapped handler; an enabled route passes every request on unchanged.
C15_KillSwitch ==
    mwOut.by = "killSwitch" =>
        IF mwCfg.enabled
        THEN mwOut.invoked /\ mwOut.req = mwReq /\ mwOut.headers = NoHeaders
        ELSE ~mwOut.invoked /\ mwOut.code = StatusForbidden

\* C15 witness: a disabled route refused an OPTIONS request that carries an
\* Authorization header
C15_Witness ==
    /\ mwOut.by = "killSwitch"
    /\ ~mwCfg.enabled
    /\ mwReq.method = "OPTIONS"
    /\ mwReq.authorization # <<>>
    /\ mwOut.code = StatusForbidden

\* the origin matches at least one pattern of the allow-list
MatchesSome == \E k \in 1..Len(mwCfg.allowOrigins) : Glob(mwCfg.allowOrigins[k], mwReq.origin)

\* C16: a request other than OPTIONS goes to the wrapped handler, with
\* Access-Control-Allow-Origin set to its own Origin, exactly when the
\* Origin matches a pattern of the allow-list; otherwise it is answered 403.
C16_CorsGate ==
    (mwOut.by = "cors" /\ mwReq.method # "OPTIONS") =>
        /\ mwOut.invoked <=> MatchesSome
        /\ mwOut.invoked => mwOut.headers.acao = Header(mwReq.origin) /\ mwOut.req = mwReq
        /\ ~mwOut.invoked => mwOut.code = StatusForbidden /\ ~mwOut.headers.acao.set

\* C16 witness: the origin matched the second pattern only, a glob
C16_Witness ==
    /\ mwOut.by = "cors"
    /\ mwReq.method = "POST"
    /\ mwOut.invoked
    /\ Len(mwCfg.allowOrigins) = 2
    /\ ~Glob(mwCfg.allowOrigins[1], mwReq.origin)
    /\ mwCfg.allowOrigins[2] = <<"*", "a">>
    /\ mwReq.origin = <<"b", "a">>

\* C17: an allowed request other than OPTIONS that passed corsHandler has
\* the header Vary: Origin and Access-Control-Allow-Origin equal to its Origin.
C17_VaryOrigin ==
    (mwOut.by = "cors" /\ mwReq.method # "OPTIONS" /\ mwOut.invoked) =>
        /\ mwOut.headers.vary = Header("Origin")
        /\ mwOut.headers.acao = Header(mwReq.origin)

\* C18: an OPTIONS request is answered 200 with an empty body and the
\* max-age, allow-methods and allow-headers headers, never reaches the
\* wrapped handler, and gets Access-Control-Allow-Origin, equal to its
\* Origin, exactly when the Origin is allowed.
C18_Preflight ==
    (mwOut.by = "cors" /\ mwReq.method = "OPTIONS") =>
        /\ mwOut.code = StatusOK
        /\ mwOut.body = NoBody
        /\ ~mwOut.invoked
        /\ mwOut.headers.maxAge = Header("3600")
        /\ mwOut.headers.allowMethods = Header(supportedMethods)
        /\ mwOut.headers.allowHeaders = Header(supportedHeaders)
        /\ mwOut.headers.acao.set <=> MatchesSome
        /\ mwOut.headers.acao.set => mwOut.headers.acao.value = mwReq.origin

\* C18 witness: a preflight from an origin that is not allowed, answered 200
\* without Access-Control-Allow-Origin
C18_Witness ==
    /\ mwOut.by = "cors"
    /\ mwReq.method = "OPTIONS"
    /\ mwCfg.allowOrigins # <<>>
    /\ ~MatchesSome
    /\ mwOut.code = StatusOK
    /\ ~mwOut.headers.acao.set

(***************************************************************************)
(* decoder.DecodeLimitJSONData: content-type check, decompression reader,  *)
(* http.MaxBytesReader, json.Decoder.  A body is a sequence of bytes; the  *)
(* JSON documents tried are objects without members.                      *)
(***************************************************************************)
\* everything but the further components is idle
BaseIdle ==
    /\ MwIdle
    /\ ConcurrentRequests = 1
    /\ LimiterIdle
    /\ contentType = TRUE
    /\ stream = <<>>
    /\ trailingNewline = FALSE
    /\ method = "POST"
    /\ HandlerIdle
    /\ rateLimit = 1
    /\ RateIdle

CoreIdle ==
    /\ BaseIdle
    /\ ps = Unused
    /\ ch = Unused

baseVars == <<limiterVars, streamVars, rateVars, mwVars>>
coreVars == <<baseVars, ps, ch>>

JSONBytes == {"{", "}", " "}
Digits == <<"1", "2", "3", "4", "5", "6", "7">>
tooLarge == "http: request body too large"

\* length of the run of equal bytes at the head of a non-empty sequence
RunLength(str) ==
    CHOOSE k \in 1..Len(str) :
        /\ \A m \in 1..k : str[m] = str[1]
        /\ k = Len(str) \/ str[k + 1] # str[1]

RECURSIVE Deflate(_)
\* the compressed form of a byte sequence: a run of k > 1 equal bytes is
\* written as the byte and k
Deflate(str) ==
    IF str = <<>>
    THEN <<>>
    ELSE LET k == RunLength(str)
         IN  (IF k = 1 THEN <<str[1]>> ELSE <<str[1], Digits[k]>>)
             \o Deflate(SubSeq(str, k + 1, Len(str)))

DigitValue(d) == CHOOSE k \in 1..Len(Digits) : Digits[k] = d
IsDigit(d) == \E k \in 1..Len(Digits) : Digits[k] = d

RECURSIVE Inflate(_)
\* what the gzip or zlib reader yields for a compressed sequence
Inflate(w) ==
    IF w = <<>>
    THEN <<>>
    ELSE IF Len(w) >= 2 /\ IsDigit(w[2])
    THEN [m \in 1..DigitValue(w[2]) |-> w[1]] \o Inflate(SubSeq(w, 3, Len(w)))
    ELSE <<w[1]>> \o Inflate(Tail(w))

\* the bytes on the wire of a body sent with an encoding ("" is identity)
Encode(enc, body0) == IF enc = "" THEN body0 ELSE <<enc>> \o Deflate(body0)

\* strings.Contains(contentType, "application/json")
ContentTypes == {"application/json", "application/json; charset=UTF-8", "text/plain"}
ContainsJSON(ct) == ct \in {"application/json", "application/json; charset=UTF-8"}

\* getDecompressionReader: the stream the reader yields, or an error
getDecompressionReader(req) ==
    IF ~req.hasBody
    THEN [reader |-> <<>>, err |-> "no content"]
    ELSE IF req.encoding \in {"gzip", "deflate"}
    THEN IF req.wire = <<>>
         THEN [reader |-> <<>>,
               err |-> IF req.encoding = "gzip" THEN EOF ELSE "unexpected EOF"]
         ELSE IF req.wire[1] # req.encoding
         THEN [reader |-> <<>>, err |-> "invalid header"]
         ELSE [reader |-> Inflate(Tail(req.wire)), err |-> Nil]
    ELSE [reader |-> req.wire, err |-> Nil]

\* readRequestJSONData
readRequestJSONData(req) ==
    IF ~ContainsJSON(req.contentType)
    THEN [reader |-> <<>>, err |-> "invalid content type"]
    ELSE getDecompressionReader(req)

RECURSIVE Scan(_, _)
\* json scanner over the bytes buffered so far: "end" when a value is
\* complete, "error" at a byte no value can hold, "more" otherwise
Scan(buf, inObject) ==
    IF buf = <<>>
    THEN "more"
    ELSE IF Head(buf) = " "
    THEN Scan(Tail(buf), inObject)
    ELSE IF ~inObject
    THEN IF Head(buf) = "{" THEN Scan(Tail(buf), TRUE) ELSE "error"
    ELSE IF Head(buf) = "}" THEN "end" ELSE "error"

nonSpace(buf) == \E k \in 1..Len(buf) : buf[k] # " "

\* json.Decoder.readValue once the buffer is scanned and the last read failed
readValueError(buf, e) ==
    IF e = EOF
    THEN IF nonSpace(buf) THEN "unexpected EOF" ELSE EOF
    ELSE e

\* DecodeLimitJSONData up to the first read of the decoder
DecStart ==
    /\ dec.pc = "start"
    /\ LET r == readRequestJSONData(dec.req)
       IN  dec' = IF r.err # Nil
                  THEN [dec EXCEPT !.pc = "done", !.err = r.err]
                  ELSE [dec EXCEPT !.pc = "scan", !.reader = r.reader, !.n = dec.maxSize]
    /\ UNCHANGED <<coreVars, v1, raw, sr, ss, mp>>

\* json.Decoder.readValue: look in the buffer for a value, then at the
\* error of the last read; DecodeJSONData wraps every error
DecScan ==
    /\ dec.pc = "scan"
    /\ LET sc == Scan(dec.buf, FALSE)
       IN  dec' = IF sc = "end"
                  THEN [dec EXCEPT !.pc = "done", !.v = "object", !.err = Nil]
                  ELSE IF sc = "error"
                  THEN [dec EXCEPT !.pc = "done",
                                   !.err = WrapDataReadError("invalid character")]
                  ELSE IF dec.rerr # Nil
                  THEN [dec EXCEPT !.pc = "done",
                            !.err = WrapDataReadError(readValueError(dec.buf, dec.rerr))]
                  ELSE [dec EXCEPT !.pc = "refill"]
    /\ UNCHANGED <<coreVars, v1, raw, sr, ss, mp>>

\* json.Decoder.refill: one Read of the http.MaxBytesReader, which asks the
\* decompression reader for at most n+1 bytes and gets k of them
DecRefill(k, withEOF) ==
    /\ dec.pc = "refill"
    /\ LET avail == Len(dec.reader) - dec.pos
       IN  IF dec.lerr # Nil
           THEN /\ k = 0 /\ ~withEOF
                /\ dec' = [dec EXCEPT !.pc = "scan", !.rerr = dec.lerr]
           ELSE IF avail = 0
           THEN /\ k = 0 /\ ~withEOF
                /\ dec' = [dec EXCEPT !.pc = "scan", !.rerr = EOF, !.lerr = EOF]
           ELSE /\ k >= 1 /\ k <= avail /\ k <= dec.n + 1
                /\ withEOF => k = avail
                /\ LET e == IF withEOF THEN EOF ELSE Nil
                   IN  dec' = IF k <= dec.n
                              THEN [dec EXCEPT !.pc = "scan",
                                        !.buf = @ \o SubSeq(dec.reader, dec.pos + 1, dec.pos + k),
                                        !.pos = @ + k, !.n = @ - k,
                                        !.rerr = e, !.lerr = e]
                              ELSE [dec EXCEPT !.pc = "scan",
                                        !.buf = @ \o SubSeq(dec.reader, dec.pos + 1, dec.pos + dec.n),
                                        !.pos = @ + k, !.n = 0,
                                        !.rerr = tooLarge, !.lerr = tooLarge]
    /\ UNCHANGED <<coreVars, v1, raw, sr, ss, mp>>

Bodies21 == Strings(JSONBytes, MaxBodyLen)
\* Content-Encoding header and the encoding the body was really sent with
Encodings == {<<"", "">>, <<"gzip", "gzip">>, <<"deflate", "deflate">>,
              <<"gzip", "">>, <<"", "gzip">>}

DecRequest(ct, hb, e, b) ==
    [contentType |-> ct, hasBody |-> hb, encoding |-> e[1], sentAs |-> e[2],
     body |-> b, wire |-> Encode(e[2], b)]

InitDec ==
    /\ CoreIdle
    /\ v1 = Unused /\ raw = Unused /\ sr = Unused /\ ss = Unused /\ mp = Unused
    /\ \E ct \in ContentTypes, hb \in BOOLEAN, e \in Encodings, b \in Bodies21,
          m \in 0..(MaxBodyLen + 1) :
          /\ ~hb => (b = <<>> /\ e = <<"", "">>)
          /\ ct # "application/json" => (b = <<"{", "}">> /\ m = 2)
          /\ dec = [pc |-> "start", req |-> DecRequest(ct, hb, e, b), maxSize |-> m,
                    reader |-> <<>>, pos |-> 0, n |-> 0, lerr |-> Nil,
                    buf |-> <<>>, rerr |-> Nil, v |-> Nil, err |-> Nil]

NextDec ==
    \/ DecStart
    \/ DecScan
    \/ \E k \in 0..(MaxBodyLen + 1), withEOF \in BOOLEAN : DecRefill(k, withEOF)

SpecDec == InitDec /\ [][NextDec]_vars

\* the body is one JSON object, with white space around it or not
IsJSONObject(b) ==
    \E o \in 1..Len(b), c \in 1..Len(b) :
        /\ o < c
        /\ b[o] = "{" /\ b[c] = "}"
        /\ \A m \in 1..Len(b) : m \notin {o, c} => b[m] = " "

\* C21: a JSON body sent as application/json, as it is or compressed, is
\* decoded without error when its decompressed length is at most maxSize
\* and fails with an error other than io.EOF when it is longer.
C21_LimitOnDecompressedBytes ==
    (/\ dec.pc = "done"
     /\ dec.req.hasBody
     /\ ContainsJSON(dec.req.contentType)
     /\ dec.req.encoding = dec.req.sentAs
     /\ IsJSONObject(dec.req.body)) =>
        IF Len(dec.req.body) <= dec.maxSize
        THEN dec.err = Nil
        ELSE dec.err # Nil /\ dec.err # EOF

(***************************************************************************)
(* v1Route.handler: method check, request decoder, schema validation,      *)
(* payload decoder, report.                                                *)
(***************************************************************************)
\* the words of an error text
Words(e) ==
    CASE e = "http: request body too large" -> <<"http:", "request body too large">>
      [] e = "data read error: http: request body too large" ->
              <<"data read error:", "http:", "request body too large">>
      [] e = "publisher is being stopped" -> <<"publisher is being stopped">>
      [] e = "failed to publish: publisher is being stopped" ->
              <<"failed to publish:", "publisher is being stopped">>
      [] OTHER -> <<e>>

\* strings.Contains(err.Error(), phrase)
Contains(e, phrase) == \E k \in 1..Len(Words(e)) : Words(e)[k] = phrase

\* what the request decoder, the schema, the payload decoder and the
\* publisher answer for the request
V1DecodeErrors == {Nil, "http: request body too large",
                   "data read error: http: request body too large",
                   "data read error: invalid character", "invalid content type"}
V1ReportErrors == {Nil, "queue is full", "publisher is being stopped",
                   "failed to publish: publisher is being stopped", "context canceled"}

V1Done(res) == [v1 EXCEPT !.pc = "done", !.resp = res]

\* r.Method check and reqDecoder(r)
V1Decode ==
    /\ v1.pc = "start"
    /\ v1' = IF v1.req.method # "POST"
             THEN V1Done(methodNotAllowedResponse)
             ELSE IF v1.req.decodeErr # Nil
             THEN IF Contains(v1.req.decodeErr, "request body too large")
                  THEN V1Done(requestTooLargeResponse)
                  ELSE V1Done(cannotDecodeResponse(v1.req.decodeErr))
             ELSE [v1 EXCEPT !.pc = "validate"]
    /\ UNCHANGED <<coreVars, dec, raw, sr, ss, mp>>

V1ValidateIgnoresError ==
    /\ v1.pc = "validate"
    /\ v1' = [v1 EXCEPT !.pc = "decode", !.validated = TRUE]
    /\ UNCHANGED <<coreVars, dec, raw, sr, ss, mp>>

\* validation.Validate(data, Schema)
V1Validate ==
    /\ v1.pc = "validate"
    /\ v1' = IF ~v1.req.schemaValid
             THEN [V1Done(cannotValidateResponse("schema")) EXCEPT !.validated = TRUE]
             ELSE [v1 EXCEPT !.pc = "decode", !.validated = TRUE]
    /\ UNCHANGED <<coreVars, dec, raw, sr, ss, mp>>

\* PayloadDecoder(data)
V1PayloadDecode ==
    /\ v1.pc = "decode"
    /\ v1' = IF ~v1.req.decodable
             THEN [V1Done(cannotDecodeResponse("payload")) EXCEPT !.decoded = TRUE]
             ELSE [v1 EXCEPT !.pc = "report", !.decoded = TRUE]
    /\ UNCHANGED <<coreVars, dec, raw, sr, ss, mp>>

\* report(r.Context(), preq) and the response chosen from its error
V1Report ==
    /\ v1.pc = "report"
    /\ LET e == v1.req.reportErr
           res == IF e # Nil
                  THEN IF Contains(e, "publisher is being stopped")
                       THEN serverShuttingDownResponse
                       ELSE fullQueueResponse
                  ELSE acceptedResponse
       IN  v1' = [V1Done(res) EXCEPT !.reports = @ + 1, !.reportedWith = e]
    /\ UNCHANGED <<coreVars, dec, raw, sr, ss, mp>>

InitV1 ==
    /\ CoreIdle
    /\ dec = Unused /\ raw = Unused /\ sr = Unused /\ ss = Unused /\ mp = Unused
    /\ \E m \in Methods, de \in V1DecodeErrors, sv \in BOOLEAN, pd \in BOOLEAN,
          re \in V1ReportErrors :
          v1 = [pc |-> "start",
                req |-> [method |-> m, decodeErr |-> de, schemaValid |-> sv,
                         decodable |-> pd, reportErr |-> re],
                validated |-> FALSE, decoded |-> FALSE, reports |-> 0,
                reportedWith |-> Nil, resp |-> zeroResponse]

NextV1 ==
    \/ V1Decode
    \/ V1Validate
    \/ V1PayloadDecode
    \/ V1Report

SpecV1 == InitV1 /\ [][NextV1]_vars

\* C22: the v1 handler reports at most once, and only a payload that
\* passed the schema and the payload decoder; it answers 202 exactly when
\* that report returned nil, 503 "server is shutting down" when the report
\* error contains "publisher is being stopped", 503 "queue is full" for any
\* other report error.
C22_AllOrNothingReport ==
    /\ v1.reports <= 1
    /\ v1.reports = 1 =>
          /\ v1.req.method = "POST" /\ v1.req.decodeErr = Nil
          /\ v1.validated /\ v1.req.schemaValid
          /\ v1.decoded /\ v1.req.decodable
    /\ v1.pc = "done" =>
          /\ v1.resp.code = StatusAccepted <=> (v1.reports = 1 /\ v1.reportedWith = Nil)
          /\ (v1.reports = 1 /\ Contains(v1.reportedWith, "publisher is being stopped"))
                => v1.resp = serverShuttingDownResponse
          /\ (v1.reports = 1 /\ v1.reportedWith # Nil
              /\ ~Contains(v1.reportedWith, "publisher is being stopped"))
                => v1.resp = fullQueueResponse

\* C22 witness: the report failed with a wrapped "publisher is being
\* stopped" and the request was answered 503 "server is shutting down"
C22_Witness ==
    /\ v1.pc = "done"
    /\ v1.reports = 1
    /\ v1.reportedWith = "failed to publish: publisher is being stopped"
    /\ v1.resp = serverShuttingDownResponse

(***************************************************************************)
(* v2Route.handleRawModel on documents with any set of top-level keys:     *)
(* the loop over Models, validation.Validate, model.modelDecoder.          *)
(***************************************************************************)
\* top-level keys a document may hold; a document is its key set, the keys
\* whose value passes its schema and the keys whose value decodes
DocKeys == ModelKeys \cup {"metadata"}
RawDocs == [keys : SUBSET DocKeys, valid : SUBSET ModelKeys, decodable : SUBSET ModelKeys]

Call(op, key, ok) == [op |-> op, key |-> key, ok |-> ok]

RawDone(tr, res) == [raw EXCEPT !.pc = "done", !.tr = tr, !.resp = res]

\* one turn of the loop over Models: is model.key a key of the document
RawLookup ==
    /\ raw.pc = "lookup"
    /\ raw' = IF raw.idx > Len(Models)
              THEN RawDone(0, cannotValidateResponse("did not recognize object type"))
              ELSE IF Models[raw.idx] \in raw.doc.keys
              THEN [raw EXCEPT !.pc = "validate"]
              ELSE [raw EXCEPT !.idx = @ + 1]
    /\ UNCHANGED <<coreVars, dec, v1, sr, ss, mp>>

RawValidateIgnoresError ==
    /\ raw.pc = "validate"
    /\ LET key == Models[raw.idx]
           ok == key \in raw.doc.valid
       IN  raw' = [raw EXCEPT !.pc = "decode", !.calls = Append(@, Call("validate", key, ok))]
    /\ UNCHANGED <<coreVars, dec, v1, sr, ss, mp>>

\* validation.Validate(entry, model.schema)
RawValidate ==
    /\ raw.pc = "validate"
    /\ LET key == Models[raw.idx]
           ok == key \in raw.doc.valid
       IN  raw' = IF ~ok
                  THEN [RawDone(0, cannotValidateResponse("schema"))
                            EXCEPT !.calls = Append(@, Call("validate", key, ok))]
                  ELSE [raw EXCEPT !.pc = "decode",
                                   !.calls = Append(@, Call("validate", key, ok))]
    /\ UNCHANGED <<coreVars, dec, v1, sr, ss, mp>>

\* model.modelDecoder(entry, err)
RawDecode ==
    /\ raw.pc = "decode"
    /\ LET key == Models[raw.idx]
           ok == key \in raw.doc.decodable
       IN  raw' = IF ~ok
                  THEN [RawDone(raw.idx, cannotDecodeResponse("model"))
                            EXCEPT !.calls = Append(@, Call("decode", key, ok))]
                  ELSE [RawDone(raw.idx, zeroResponse)
                            EXCEPT !.calls = Append(@, Call("decode", key, ok))]
    /\ UNCHANGED <<coreVars, dec, v1, sr, ss, mp>>

InitRaw ==
    /\ CoreIdle
    /\ dec = Unused /\ v1 = Unused /\ sr = Unused /\ ss = Unused /\ mp = Unused
    /\ \E d \in RawDocs :
          raw = [pc |-> "lookup", doc |-> d, idx |-> 1, calls |-> <<>>, tr |-> 0,
                 resp |-> zeroResponse]

NextRaw ==
    \/ RawLookup
    \/ RawValidate
    \/ RawDecode

SpecRaw == InitRaw /\ [][NextRaw]_vars

\* the recognized keys of the document
Recognized == raw.doc.keys \cap ModelKeys
\* the document was accepted: a record and no error
RawAccepted == raw.pc = "done" /\ ~IsError(raw.resp) /\ raw.tr # 0

\* C23: a document is accepted only if it holds exactly one recognized key;
\* with none or with more than one it is rejected with a validation error
\* and yields no record.
C23_ExactlyOneKey ==
    raw.pc = "done" =>
        /\ RawAccepted => Cardinality(Recognized) = 1
        /\ Cardinality(Recognized) # 1 =>
              /\ raw.resp.code = StatusBadRequest
              /\ raw.resp.err = "data validation error"
              /\ raw.tr = 0

\* C24: the decoder of a type runs only on a value that passed that type's
\* schema, validated just before; a validation failure and a decode failure
\* give two different responses.
C24_ValidateBeforeDecode ==
    /\ \A j \in 1..Len(raw.calls) :
          raw.calls[j].op = "decode" =>
              /\ j > 1
              /\ raw.calls[j - 1] = Call("validate", raw.calls[j].key, TRUE)
    /\ raw.pc = "done" =>
          \A j \in 1..Len(raw.calls) :
              ~raw.calls[j].ok =>
                  /\ j = Len(raw.calls)
                  /\ raw.calls[j].op = "validate" =>
                        (raw.resp.code = StatusBadRequest
                         /\ raw.resp.err = "data validation error")
                  /\ raw.calls[j].op = "decode" =>
                        (raw.resp.code = StatusBadRequest
                         /\ raw.resp.err = "data decoding error")

\* C24 witness: a span passed its schema and then failed to decode
C24_Witness ==
    /\ raw.pc = "done"
    /\ raw.calls = <<Call("validate", "span", TRUE), Call("decode", "span", FALSE)>>
    /\ raw.resp.err = "data decoding error"

(***************************************************************************)
(* streamResponse: AddError, ValidationError, String, Marshal.             *)
(***************************************************************************)
queueFullErr == "ERR_QUEUE_FULL"
processingTimeoutErr == "ERR_PROCESSING_TIMEOUT"
schemaValidationErr == "ERR_SCHEMA_VALIDATION"
invalidJSONErr == "ERR_INVALID_JSON"
shuttingDownErr == "ERR_SHUTTING_DOWN"
invalidContentTypeErr == "ERR_CONTENT_TYPE"

streamErrorTypes == {queueFullErr, processingTimeoutErr, schemaValidationErr,
                     invalidJSONErr, shuttingDownErr, invalidContentTypeErr}

standardMessages ==
    [t \in streamErrorTypes |->
        CASE t = queueFullErr -> "queue is full"
          [] t = processingTimeoutErr -> "timeout while waiting to process request"
          [] t = schemaValidationErr -> "validation error"
          [] t = invalidJSONErr -> "invalid JSON"
          [] t = shuttingDownErr -> "server is shutting down"
          [] t = invalidContentTypeErr ->
                 "invalid content-type. Expected 'application/x-ndjson'"]

\* errorDetails; present is false for a key the Errors map does not hold,
\* and the other fields then have Go's zero values
NoDetails == [present |-> FALSE, Count |-> 0, Message |-> "", DocumentsNil |-> TRUE,
              Documents |-> <<>>, errorsMap |-> {}]

\* a streamResponse whose Errors map is nil
NewStreamResponse(acc, inv, drp) ==
    [Accepted |-> acc, Invalid |-> inv, Dropped |-> drp, ErrorsNil |-> TRUE,
     Errors |-> [t \in streamErrorTypes |-> NoDetails]]

AddErrorOverwrites(s, errType, count) ==
    [s EXCEPT !.ErrorsNil = FALSE,
              !.Errors[errType] = [NoDetails EXCEPT !.present = TRUE, !.Count = count,
                                       !.Message = standardMessages[errType]]]

\* streamResponse.AddError
AddError(s, errType, count) ==
    LET s1 == IF s.ErrorsNil THEN [s EXCEPT !.ErrorsNil = FALSE] ELSE s
    IN  IF ~s1.Errors[errType].present
        THEN [s1 EXCEPT !.Errors[errType] =
                  [NoDetails EXCEPT !.present = TRUE, !.Count = count,
                                    !.Message = standardMessages[errType]]]
        ELSE [s1 EXCEPT !.Errors[errType].Count = @ + count]

ValidationErrorCounts(s, e, offendingDocument) ==
    LET s1 == AddError(s, schemaValidationErr, 1)
        d == s1.Errors[schemaValidationErr]
        errorDetails == IF d.DocumentsNil
                        THEN [d EXCEPT !.DocumentsNil = FALSE, !.Documents = <<>>,
                                       !.errorsMap = {}]
                        ELSE d
    IN  IF Len(errorDetails.Documents) < validationErrorsLimit
           /\ e \notin errorDetails.errorsMap
        THEN [s1 EXCEPT !.Errors[schemaValidationErr] =
                  [errorDetails EXCEPT
                      !.errorsMap = @ \cup {e},
                      !.Documents = Append(@, [Error |-> e,
                                               OffendingEvent |-> offendingDocument])]]
        ELSE s1

ValidationErrorOffByOne(s, e, offendingDocument) ==
    LET s1 == AddError(s, schemaValidationErr, 0)
        d == s1.Errors[schemaValidationErr]
        errorDetails == IF d.DocumentsNil
                        THEN [d EXCEPT !.DocumentsNil = FALSE, !.Documents = <<>>,
                                       !.errorsMap = {}]
                        ELSE d
    IN  IF Len(errorDetails.Documents) <= validationErrorsLimit
           /\ e \notin errorDetails.errorsMap
        THEN [s1 EXCEPT !.Errors[schemaValidationErr] =
                  [errorDetails EXCEPT
                      !.errorsMap = @ \cup {e},
                      !.Documents = Append(@, [Error |-> e,
                                               OffendingEvent |-> offendingDocument])]]
        ELSE s1

\* streamResponse.ValidationError
ValidationError(s, e, offendingDocument) ==
    LET s1 == AddError(s, schemaValidationErr, 0)
        d == s1.Errors[schemaValidationErr]
        errorDetails == IF d.DocumentsNil
                        THEN [d EXCEPT !.DocumentsNil = FALSE, !.Documents = <<>>,
                                       !.errorsMap = {}]
                        ELSE d
    IN  IF Len(errorDetails.Documents) < validationErrorsLimit
           /\ e \notin errorDetails.errorsMap
        THEN [s1 EXCEPT !.Errors[schemaValidationErr] =
                  [errorDetails EXCEPT
                      !.errorsMap = @ \cup {e},
                      !.Documents = Append(@, [Error |-> e,
                                               OffendingEvent |-> offendingDocument])]]
        ELSE s1

\* the order in which String walks the error types
StringOrder == <<queueFullErr, processingTimeoutErr, schemaValidationErr,
                 invalidJSONErr, shuttingDownErr, invalidContentTypeErr>>

RECURSIVE errorList(_, _)
\* streamResponse.String: the pieces joined with ", ", one for each error
\* type with a count above 0, each "message (count)" and its documents
errorList(s, k) ==
    IF k > Len(StringOrder)
    THEN <<>>
    ELSE LET d == s.Errors[StringOrder[k]]
         IN  (IF d.Count > 0
              THEN <<[message |-> d.Message, count |-> d.Count, documents |-> d.Documents]>>
              ELSE <<>>) \o errorList(s, k + 1)

String(s) == errorList(s, 1)

\* json.Marshal of one errorDetails: "documents" has omitempty
MarshalDetails(d) ==
    [present |-> d.present, count |-> d.Count, message |-> d.Message,
     documentsOmitted |-> Len(d.Documents) = 0, documents |-> d.Documents]

\* streamResponse.Marshal: json.Marshal(s); "errors" has no omitempty, and
\* a nil map is written as null
Marshal(s) ==
    [accepted |-> s.Accepted, invalid |-> s.Invalid, dropped |-> s.Dropped,
     errorsOmitted |-> FALSE, errorsNull |-> s.ErrorsNil,
     errors |-> [t \in streamErrorTypes |-> MarshalDetails(s.Errors[t])]]

\* what String and Marshal return, in one shape
Rendered(op, s) ==
    [op |-> op,
     text |-> IF op = "String" THEN String(s) ELSE <<>>,
     json |-> IF op = "Marshal" THEN Marshal(s) ELSE Marshal(NewStreamResponse(0, 0, 0))]

ErrorTexts == <<"e1", "e2", "e3", "e4", "e5", "e6", "e7", "e8">>

\* a call of a mutating method: the aggregator before, the call, its number
SrMutate(s, op, kind, count) ==
    [sr EXCEPT !.prev = sr.agg, !.agg = s, !.n = @ + 1, !.epoch = @ + 1,
               !.last = [op |-> op, kind |-> kind, count |-> count],
               !.sums[kind] = @ + count]

\* s.AddError(errType, count)
SrAddError(errType, count) ==
    /\ sr.pc = "ready"
    /\ sr' = SrMutate(AddError(sr.agg, errType, count), "AddError", errType, count)
    /\ UNCHANGED <<coreVars, dec, v1, raw, ss, mp>>

\* s.ValidationError(ErrorTexts[e], document number n+1)
SrValidationError(e) ==
    /\ sr.pc = "ready"
    /\ sr' = [SrMutate(ValidationError(sr.agg, ErrorTexts[e], sr.n + 1),
                       "ValidationError", schemaValidationErr, 0)
                EXCEPT !.hist = Append(@, [Error |-> ErrorTexts[e],
                                           OffendingEvent |-> sr.n + 1])]
    /\ UNCHANGED <<coreVars, dec, v1, raw, ss, mp>>

SrRender(s, op) ==
    [sr EXCEPT !.prev = sr.agg, !.agg = s, !.n = @ + 1,
               !.last = [op |-> op, kind |-> schemaValidationErr, count |-> 0],
               !.log = Append(@, [epoch |-> sr.epoch, out |-> Rendered(op, sr.agg)])]

SrStringMakesMap ==
    /\ sr.pc = "ready"
    /\ sr' = SrRender([sr.agg EXCEPT !.ErrorsNil = FALSE], "String")
    /\ UNCHANGED <<coreVars, dec, v1, raw, ss, mp>>

\* s.String()
SrString ==
    /\ sr.pc = "ready"
    /\ sr' = SrRender(sr.agg, "String")
    /\ UNCHANGED <<coreVars, dec, v1, raw, ss, mp>>

\* s.Marshal()
SrMarshal ==
    /\ sr.pc = "ready"
    /\ sr' = SrRender(sr.agg, "Marshal")
    /\ UNCHANGED <<coreVars, dec, v1, raw, ss, mp>>

InitSr ==
    /\ CoreIdle
    /\ dec = Unused /\ v1 = Unused /\ raw = Unused /\ ss = Unused /\ mp = Unused
    /\ \E c \in {<<0, 0, 0>>, <<2, 1, 1>>} :
          sr = [pc |-> "ready", agg |-> NewStreamResponse(c[1], c[2], c[3]),
                prev |-> NewStreamResponse(c[1], c[2], c[3]),
                n |-> 0, epoch |-> 0,
                last |-> [op |-> "new", kind |-> schemaValidationErr, count |-> 0],
                sums |-> [t \in streamErrorTypes |-> 0], hist |-> <<>>, log |-> <<>>]

\* the error texts seen so far by ValidationError
TextsSeen == {sr.hist[k].Error : k \in 1..Len(sr.hist)}

\* calls of ValidationError only; a text not seen before is always the next
\* of ErrorTexts, as the code looks at the texts only to compare them
NextSrValidation ==
    /\ sr.n < MaxValidationCalls
    /\ \E e \in 1..NumErrorTexts :
          /\ e <= Cardinality(TextsSeen) + 1
          /\ SrValidationError(e)

\* every method, in any order
NextSr ==
    /\ sr.n < MaxSrOps
    /\ \/ \E t \in streamErrorTypes, c \in 0..MaxCount : SrAddError(t, c)
       \/ \E e \in 1..2 : SrValidationError(e)
       \/ SrString
       \/ SrMarshal

SpecSrValidation == InitSr /\ [][NextSrValidation]_vars
SpecSr == InitSr /\ [][NextSr]_vars

RECURSIVE FirstOccurrences(_)
\* the calls of a history whose error text no earlier call had
FirstOccurrences(h) ==
    IF h = <<>>
    THEN <<>>
    ELSE LET before == SubSeq(h, 1, Len(h) - 1)
             call == h[Len(h)]
         IN  IF \E k \in 1..Len(before) : before[k].Error = call.Error
             THEN FirstOccurrences(before)
             ELSE Append(FirstOccurrences(before), call)

Samples == sr.agg.Errors[schemaValidationErr].Documents

\* C25: after any calls of ValidationError the schema-validation entry
\* holds at most 5 samples with different error texts: the first 5 different
\* texts in order of first occurrence, each with the document of its first
\* occurrence; 10 calls with one text leave exactly 1 sample.
C25_SamplesCappedAndDistinct ==
    LET first == FirstOccurrences(sr.hist)
    IN  /\ Len(Samples) <= 5
        /\ \A j, k \in 1..Len(Samples) : j # k => Samples[j].Error # Samples[k].Error
        /\ Samples = SubSeq(first, 1, Min(5, Len(first)))
        /\ (Len(sr.hist) = 10 /\ Cardinality(TextsSeen) = 1) => Len(Samples) = 1

\* C25 witness: a sixth different text arrived and 5 samples are held
C25_Witness ==
    /\ Cardinality(TextsSeen) = 6
    /\ Len(Samples) = 5
    /\ Len(sr.hist) > 6

\* C26: after any calls of AddError with counts >= 0 the count of a kind
\* is the sum of the counts given for it and never decreases, its message
\* is the standard message of the kind, its samples are kept and the
\* entries of the other kinds are as before.
C26_AddErrorAccumulates ==
    /\ \A t \in streamErrorTypes :
          sr.agg.Errors[t].present =>
              /\ sr.agg.Errors[t].Count = sr.sums[t]
              /\ sr.agg.Errors[t].Message = standardMessages[t]
    /\ sr.last.op = "AddError" =>
          /\ sr.agg.Errors[sr.last.kind].present
          /\ sr.agg.Errors[sr.last.kind].Count =
                sr.prev.Errors[sr.last.kind].Count + sr.last.count
          /\ sr.agg.Errors[sr.last.kind].Count >= sr.prev.Errors[sr.last.kind].Count
          /\ sr.agg.Errors[sr.last.kind].Documents = sr.prev.Errors[sr.last.kind].Documents
          /\ \A t \in streamErrorTypes \ {sr.last.kind} :
                sr.agg.Errors[t] = sr.prev.Errors[t]

\* C26 witness: a second AddError for the schema-validation kind, which
\* holds a sample, raised its count
C26_Witness ==
    /\ sr.last.op = "AddError"
    /\ sr.last.kind = schemaValidationErr
    /\ sr.last.count > 0
    /\ sr.prev.Errors[schemaValidationErr].present
    /\ Len(sr.agg.Errors[schemaValidationErr].Documents) > 0

\* C27: Marshal and String leave the aggregator as it was, also when
\* Errors is nil, and between two mutations every call of one of them
\* returns the same output.
C27_RenderingIsPure ==
    /\ sr.last.op \in {"String", "Marshal"} => sr.agg = sr.prev
    /\ \A j, k \in 1..Len(sr.log) :
          (sr.log[j].epoch = sr.log[k].epoch /\ sr.log[j].out.op = sr.log[k].out.op)
              => sr.log[j].out = sr.log[k].out

\* C27 witness: String, Marshal and String again on a new streamResponse
C27_Witness ==
    /\ Len(sr.log) = 3
    /\ sr.epoch = 0
    /\ sr.agg.ErrorsNil
    /\ sr.log[1].out.op = "String"
    /\ sr.log[2].out.op = "Marshal"
    /\ sr.log[3].out.op = "String"

\* C28: the serialized streamResponse has no "errors" field when no error
\* was recorded, and an error kind without samples has no "documents" field.
C28_EmptyFieldsOmitted ==
    \A j \in 1..Len(sr.log) :
        sr.log[j].out.op = "Marshal" =>
            LET out == sr.log[j].out.json
            IN  /\ (\A t \in streamErrorTypes : ~out.errors[t].present)
                       => out.errorsOmitted
                /\ \A t \in streamErrorTypes :
                       (out.errors[t].present /\ Len(out.errors[t].documents) = 0)
                           => out.errors[t].documentsOmitted

(***************************************************************************)
(* sendStatus, acceptsJSON, sendJSON, sendPlain.  An Accept header is a    *)
(* sequence of tokens.                                                     *)
(***************************************************************************)
AcceptTokens == {"*/*", "application/json", "text/html", ";q=0.8", ", "}
AcceptHeaders == Strings(AcceptTokens, MaxAcceptLen)

\* the serverResponse values of the package
ServerResponses ==
    {okResponse, acceptedResponse, forbiddenResponse("endpoint is disabled"),
     unauthorizedResponse, requestTooLargeResponse, cannotDecodeResponse("EOF"),
     cannotValidateResponse("schema"), rateLimitedResponse, methodNotAllowedResponse,
     tooManyConcurrentRequestsResponse, fullQueueResponse, serverShuttingDownResponse}

acceptsJSONOnlyExact(h) == \E k \in 1..Len(h) : h[k] = "application/json"

\* acceptsJSON: strings.Contains(h, "*/*") || strings.Contains(h, "application/json")
acceptsJSON(h) ==
    \/ \E k \in 1..Len(h) : h[k] = "*/*"
    \/ \E k \in 1..Len(h) : h[k] = "application/json"

\* res.err.Error(): the message and, for a wrapped error, its cause
errMsg(res) == [text |-> res.err, cause |-> res.cause]

\* sendJSON(w, {"error": errMsg})
sendJSON(msg) == [format |-> "json", text |-> msg.text, cause |-> msg.cause]
\* sendPlain(w, errMsg)
sendPlain(msg) == [format |-> "plain", text |-> msg.text, cause |-> msg.cause]

\* the per-status counters of the package
StatusCounters ==
    {"response.valid.ok", "response.valid.accepted", "response.errors.forbidden",
     "response.errors.unauthorized", "response.errors.toolarge",
     "response.errors.decode", "response.errors.validate",
     "response.errors.ratelimit", "response.errors.method",
     "response.errors.concurrency", "response.errors.queue",
     "response.errors.closed"}

\* serverResponse{err, 400, nil} of processStreamRequest: the decoder's
\* error as it is, and no counter
headerDecodeResponse(e) == [code |-> StatusBadRequest, err |-> e, cause |-> Nil]

\* the responses that reach sendStatus: those of the package and the one
\* processStreamRequest builds
SentResponses == ServerResponses \cup {headerDecodeResponse("EOF")}

\* the counter field of a serverResponse that reaches sendStatus ("nil": none)
counterOf(res) ==
    IF res.err = Nil
    THEN IF res.code = StatusOK THEN "response.valid.ok"
         ELSE IF res.code = StatusAccepted THEN "response.valid.accepted"
         ELSE Nil
    ELSE IF res.err = "forbidden request" THEN "response.errors.forbidden"
    ELSE IF res.err = "invalid token" THEN "response.errors.unauthorized"
    ELSE IF res.err = "request body too large" THEN "response.errors.toolarge"
    ELSE IF res.err = "data decoding error" THEN "response.errors.decode"
    ELSE IF res.err = "data validation error" THEN "response.errors.validate"
    ELSE IF res.err = "too many requests" THEN "response.errors.ratelimit"
    ELSE IF res.err = "only POST requests are supported" THEN "response.errors.method"
    ELSE IF res.err = "timeout waiting to be processed" THEN "response.errors.concurrency"
    ELSE IF res.err = "queue is full" THEN "response.errors.queue"
    ELSE IF res.err = "server is shutting down" THEN "response.errors.closed"
    ELSE Nil

\* the counters before any response was sent
NoCounts == [count |-> 0, errors |-> 0, valid |-> 0,
             status |-> [c \in StatusCounters |-> 0]]

\* sendStatus(w, r, res): the header and the status code are written and
\* response.count is incremented before res.counter.Inc(), which panics on
\* a nil counter
SsSendStatus ==
    /\ ss.pc = "start"
    /\ LET ct == IF acceptsJSON(ss.accept) THEN "application/json"
                 ELSE "text/plain; charset=utf-8"
           written == IF ss.res.err = Nil
                      THEN NoBody
                      ELSE IF acceptsJSON(ss.accept)
                      THEN sendJSON(errMsg(ss.res))
                      ELSE sendPlain(errMsg(ss.res))
           c == counterOf(ss.res)
           k == ss.counters
       IN  IF c = Nil
           THEN ss' = [ss EXCEPT !.pc = "panicked", !.contentType = ct,
                                 !.code = ss.res.code,
                                 !.counters = [k EXCEPT !.count = @ + 1]]
           ELSE ss' = [ss EXCEPT !.pc = "done", !.contentType = ct, !.code = ss.res.code,
                                 !.body = written,
                                 !.counters =
                                     [k EXCEPT !.count = @ + 1,
                                               !.status[c] = @ + 1,
                                               !.errors = IF ss.res.err = Nil
                                                          THEN @ ELSE @ + 1,
                                               !.valid = IF ss.res.err = Nil
                                                         THEN @ + 1 ELSE @]]
    /\ UNCHANGED <<coreVars, dec, v1, raw, sr, mp>>

\* the next request is answered through sendStatus
SsNextCall(h, res) ==
    /\ ss.pc \in {"done", "panicked"}
    /\ ss.calls < MaxCalls
    /\ ss' = [ss EXCEPT !.pc = "start", !.accept = h, !.res = res, !.contentType = "",
                        !.code = 0, !.body = NoBody, !.calls = @ + 1,
                        !.prev = ss.counters]
    /\ UNCHANGED <<coreVars, dec, v1, raw, sr, mp>>

InitSs ==
    /\ CoreIdle
    /\ dec = Unused /\ v1 = Unused /\ raw = Unused /\ sr = Unused /\ mp = Unused
    /\ \E h \in AcceptHeaders, res \in ServerResponses :
          ss = [pc |-> "start", accept |-> h, res |-> res, contentType |-> "",
                code |-> 0, body |-> NoBody, calls |-> 1, counters |-> NoCounts,
                prev |-> NoCounts]

\* the Accept headers of the requests of a sequence of calls
SeqAcceptHeaders == Strings(AcceptTokens, 1)

InitSsSeq ==
    /\ CoreIdle
    /\ dec = Unused /\ v1 = Unused /\ raw = Unused /\ sr = Unused /\ mp = Unused
    /\ \E h \in SeqAcceptHeaders, res \in SentResponses :
          ss = [pc |-> "start", accept |-> h, res |-> res, contentType |-> "",
                code |-> 0, body |-> NoBody, calls |-> 1, counters |-> NoCounts,
                prev |-> NoCounts]

NextSsSeq ==
    \/ SsSendStatus
    \/ \E h \in SeqAcceptHeaders, res \in SentResponses : SsNextCall(h, res)

\* one call of sendStatus after the other
SpecSsSeq == InitSsSeq /\ [][NextSsSeq]_vars

SpecSs == InitSs /\ [][SsSendStatus]_vars

\* the Accept header holds "*/*" or "application/json"
WantsJSON == \E k \in 1..Len(ss.accept) : ss.accept[k] \in {"*/*", "application/json"}

SampleKinds == {"null", "notobject", "notype", "counter", "counter_badvalue",
                "gauge", "gauge_badvalue", "summary", "unknowntype"}
InvalidSampleKinds == {"notype", "counter_badvalue", "gauge_badvalue"}

\* the "samples" entry of a metric: absent, not an object, or the samples
SampleMaps ==
    {[kind |-> k, items |-> <<>>] : k \in {"absent", "notobject"}}
        \cup {[kind |-> "object", items |-> l] : l \in Strings(SampleKinds, MaxSamples)}

\* an element of "metrics": null, not an object, or a metric with samples
MetricData ==
    {[kind |-> k, samples |-> [kind |-> "absent", items |-> <<>>]] : k \in {"null", "notobject"}}
        \cup {[kind |-> "object", samples |-> sm] : sm \in SampleMaps}

\* md.Err after decodeCounter, decodeGauge or decodeSummary of a sample
decodeSampleErr(kind) ==
    IF kind \in {"counter_badvalue", "gauge_badvalue"}
    THEN "Error fetching field"
    ELSE Nil

RECURSIVE decodeSamplesLoop(_, _, _)
\* the loop of decodeSamples from the k-th sample on, acc the samples stored
decodeSamplesLoop(items, k, acc) ==
    IF k > Len(items)
    THEN [samples |-> acc \o [j \in 1..(Len(items) - Len(acc)) |-> "nil"],
          samplesNil |-> FALSE, Err |-> Nil]
    ELSE IF items[k] = "null"
    THEN decodeSamplesLoop(items, k + 1, acc)
    ELSE IF items[k] = "notobject"
    THEN [samples |-> <<>>, samplesNil |-> TRUE, Err |-> "invalid sample"]
    ELSE IF items[k] = "notype"
    THEN [samples |-> <<>>, samplesNil |-> TRUE, Err |-> "missing sample type"]
    ELSE IF decodeSampleErr(items[k]) # Nil
    THEN [samples |-> <<>>, samplesNil |-> TRUE, Err |-> decodeSampleErr(items[k])]
    ELSE decodeSamplesLoop(items, k + 1,
             Append(acc, IF items[k] = "unknowntype" THEN "nil" ELSE items[k]))

\* metricDecoder.decodeSamples: the samples and the decoder's Err
decodeSamples(input) ==
    IF input.kind = "absent"
    THEN [samples |-> <<>>, samplesNil |-> TRUE, Err |-> "no samples for metric event"]
    ELSE IF input.kind = "notobject"
    THEN [samples |-> <<>>, samplesNil |-> TRUE,
          Err |-> "invalid type for samples in metric event"]
    ELSE decodeSamplesLoop(input.items, 1, <<>>)

NoMetric == [isNil |-> TRUE, samples |-> <<>>, samplesNil |-> TRUE]

\* DecodeMetric: the Err of its own decoder is not returned
DecodeMetric(input) ==
    IF input.kind = "null"
    THEN [tr |-> NoMetric, err |-> "no data for metric event"]
    ELSE IF input.kind = "notobject"
    THEN [tr |-> NoMetric, err |-> "invalid type for metric event"]
    ELSE LET d == decodeSamples(input.samples)
         IN  [tr |-> [isNil |-> FALSE, samples |-> d.samples, samplesNil |-> d.samplesNil],
              err |-> Nil]

MpReturn(md, events, eventsNil, e) ==
    [mp EXCEPT !.pc = "done", !.metadata = md, !.events = events,
               !.eventsNil = eventsNil, !.err = e]

\* DecodePayload up to the loop: raw == nil, DecodeMetadata, InterfaceArr
MpStart ==
    /\ mp.pc = "start"
    /\ mp' = IF mp.raw.isNil
             THEN MpReturn("nil", <<>>, TRUE, Nil)
             ELSE IF ~mp.raw.metadataOk
             THEN MpReturn("nil", <<>>, TRUE, "Invalid type for service")
             ELSE IF mp.raw.metricsKind = "notarray"
             THEN MpReturn("nil", <<>>, TRUE, "Error fetching field")
             ELSE [mp EXCEPT !.pc = "loop", !.idx = 1,
                             !.mes = [j \in 1..Len(mp.raw.metrics) |-> NoMetric]]
    /\ UNCHANGED <<coreVars, dec, v1, raw, sr, ss>>

\* DecodePayload: one turn of the loop over metrics, or the final return;
\* decoder.Err is the Err of InterfaceArr, nil from here on
MpDecodeMetric ==
    /\ mp.pc = "loop"
    /\ mp' = IF mp.idx > Len(mp.raw.metrics)
             THEN MpReturn("metadata", mp.mes, FALSE, Nil)
             ELSE LET r == DecodeMetric(mp.raw.metrics[mp.idx])
                  IN  IF r.err # Nil
                      THEN [MpReturn("nil", <<>>, TRUE, Nil) EXCEPT !.mes[mp.idx] = r.tr]
                      ELSE [mp EXCEPT !.mes[mp.idx] = r.tr, !.idx = @ + 1]
    /\ UNCHANGED <<coreVars, dec, v1, raw, sr, ss>>

Payloads ==
    {[isNil |-> TRUE, metadataOk |-> TRUE, metricsKind |-> "absent", metrics |-> <<>>]}
        \cup {[isNil |-> FALSE, metadataOk |-> ok, metricsKind |-> k, metrics |-> <<>>] :
                 ok \in BOOLEAN, k \in {"absent", "notarray"}}
        \cup {[isNil |-> FALSE, metadataOk |-> ok, metricsKind |-> "array", metrics |-> l] :
                 ok \in BOOLEAN, l \in Strings(MetricData, MaxMetrics)}

InitMp ==
    /\ CoreIdle
    /\ dec = Unused /\ v1 = Unused /\ raw = Unused /\ sr = Unused /\ ss = Unused
    /\ \E pl \in Payloads :
          mp = [pc |-> "start", raw |-> pl, idx |-> 0, mes |-> <<>>,
                metadata |-> "nil", events |-> <<>>, eventsNil |-> TRUE, err |-> Nil]

NextMp ==
    \/ MpStart
    \/ MpDecodeMetric

SpecMp == InitMp /\ [][NextMp]_vars

\* a payload with metadata whose metrics all are objects with a samples object
WellFormedMetrics ==
    /\ ~mp.raw.isNil /\ mp.raw.metadataOk /\ mp.raw.metricsKind = "array"
    /\ \A k \in 1..Len(mp.raw.metrics) :
          mp.raw.metrics[k].kind = "object" /\ mp.raw.metrics[k].samples.kind = "object"

\* some metric of the payload holds an invalid sample
HasInvalidSample ==
    \E k \in 1..Len(mp.raw.metrics) :
        \E j \in 1..Len(mp.raw.metrics[k].samples.items) :
            mp.raw.metrics[k].samples.items[j] \in InvalidSampleKinds

\* every sample of the payload is a counter, a gauge or a summary with
\* proper values
OnlyValidSamples ==
    \A k \in 1..Len(mp.raw.metrics) :
        \A j \in 1..Len(mp.raw.metrics[k].samples.items) :
            mp.raw.metrics[k].samples.items[j] \in {"counter", "gauge", "summary"}

\* C30: DecodePayload returns an error and neither metadata nor events when
\* a metric holds a sample without type or a counter or gauge whose value is
\* not a number; with valid samples only it returns no error and one event
\* for each metric.
C30_InvalidSampleFailsPayload ==
    (mp.pc = "done" /\ WellFormedMetrics) =>
        /\ HasInvalidSample =>
              (mp.err # Nil /\ mp.metadata = "nil" /\ mp.eventsNil)
        /\ OnlyValidSamples =>
              (mp.err = Nil /\ Len(mp.events) = Len(mp.raw.metrics))

(***************************************************************************)
(* The v2 handler: failed reads and termination.                           *)
(***************************************************************************)
\* the handler runs to its return once it was called
SpecV2Fair == InitV2 /\ [][NextV2]_vars /\ WF_vars(NextV2)

\* the last Read of the batch loop failed with an error other than io.EOF
BatchReadFailed == hpc \in {"batchRead", "done"} /\ err \notin {Nil, EOF}

\* C32: when a Read of batch k fails with an error other than io.EOF, that
\* Read is the last one (the metadata line, k-1 full batches, the i records
\* of batch k and the failing line were read), the k-1 earlier batches and
\* nothing of batch k are with the reporter, and the handler returns the
\* 400 response that carries the error.
C32_FailedReadEndsRequest ==
    /\ err \notin {Nil, EOF} => hpc \in {"batchRead", "done"}
    /\ BatchReadFailed =>
          /\ reads = 1 + batchSize * Len(reported) + i + 1
          /\ \A k \in 1..Len(reported) :
                /\ Len(reported[k]) = batchSize
                /\ reportResults[k].reads = 1 + batchSize * k
          /\ IsPrefix(Flatten(reported), RecordIds)
          /\ eventables = NilSlice
          /\ hpc = "done" =>
                (response = cannotDecodeResponse(err) /\ response.code = StatusBadRequest)

\* C32 witness: the first batch was reported, one record of the second
\* batch was decoded, the next Read failed and the request was answered 400
C32_Witness ==
    /\ hpc = "done"
    /\ BatchReadFailed
    /\ Len(reported) = 1
    /\ i = 1
    /\ response.code = StatusBadRequest

C34_GetFindsLimiter ==
    \A r \in RateReqs :
        rreq[r].pc \in {"allow", "passed", "denied", "panicked"} =>
            /\ rreq[r].limiter # 0
            /\ rreq[r].pc # "panicked"

\* C35: with rate limit N and no refill, at most 2N requests of one IP go
\* to the wrapped handler under any interleaving, the others get 429.
C35_AtMostBurstPassed ==
    \A ip \in IPs :
        /\ Cardinality(PassedFrom(ip)) <= 2 * rateLimit
        /\ \A r \in DeniedFrom(ip) : rreq[r].code = StatusTooManyRequests

(***************************************************************************)
(* sendStatus: the response counters.                                      *)
(***************************************************************************)
\* C36: when a call of sendStatus has returned, response.count equals
\* response.errors.count plus response.valid.count, and the call added one
\* to the counter of the response it sent and to no other per-status
\* counter.
C36_CountersAddUp ==
    ss.pc = "done" =>
        /\ ss.counters.count = ss.counters.errors + ss.counters.valid
        /\ \A c \in StatusCounters :
              ss.counters.status[c] =
                  ss.prev.status[c] + (IF c = counterOf(ss.res) THEN 1 ELSE 0)

(***************************************************************************)
(* metricDecoder.decodeSamples: the slice it returns.                      *)
(***************************************************************************)
\* the samples of the k-th metric of the payload that are not null
NonNullSamples(k) ==
    {j \in 1..Len(mp.raw.metrics[k].samples.items) :
        mp.raw.metrics[k].samples.items[j] # "null"}

\* C38: when decodeSamples has returned without error, the slice holds one
\* sample for each input sample that is not null and no nil element.
C38_NoNilSample ==
    \A k \in 1..Len(mp.mes) :
        (mp.pc \in {"loop", "done"} /\ ~mp.mes[k].isNil /\ ~mp.mes[k].samplesNil) =>
            /\ Len(mp.mes[k].samples) = Cardinality(NonNullSamples(k))
            /\ \A j \in 1..Len(mp.mes[k].samples) : mp.mes[k].samples[j] # "nil"

(***************************************************************************)
(* streamResponse.ValidationError: what it leaves alone.                   *)
(***************************************************************************)
\* C40: a call of ValidationError leaves Accepted, Invalid and Dropped, the
\* count of every error kind and the entries of the other kinds as they
\* were; in the schema-validation entry the message it had stays and the
\* samples it held stay in front.
C40_ValidationErrorFrame ==
    sr.last.op = "ValidationError" =>
        /\ sr.agg.Accepted = sr.prev.Accepted
        /\ sr.agg.Invalid = sr.prev.Invalid
        /\ sr.agg.Dropped = sr.prev.Dropped
        /\ \A t \in streamErrorTypes : sr.agg.Errors[t].Count = sr.prev.Errors[t].Count
        /\ \A t \in streamErrorTypes \ {schemaValidationErr} :
              sr.agg.Errors[t] = sr.prev.Errors[t]
        /\ sr.prev.Errors[schemaValidationErr].present =>
              sr.agg.Errors[schemaValidationErr].Message =
                  sr.prev.Errors[schemaValidationErr].Message
        /\ IsPrefix(sr.prev.Errors[schemaValidationErr].Documents,
                    sr.agg.Errors[schemaValidationErr].Documents)

\* C40 witness: ValidationError added a sample to a schema-validation entry
\* that counts two errors, next to an entry of another kind
C40_Witness ==
    /\ sr.last.op = "ValidationError"
    /\ sr.prev.Errors[schemaValidationErr].Count = 2
    /\ sr.agg.Errors[schemaValidationErr].Count = 2
    /\ Len(sr.agg.Errors[schemaValidationErr].Documents) = 1
    /\ sr.prev.Errors[schemaValidationErr].Documents = <<>>
    /\ \E t \in streamErrorTypes \ {schemaValidationErr} : sr.agg.Errors[t].Count = 1

(***************************************************************************)
(* processStreamRequest with the decoder DecoderStreamAdapter makes of     *)
(* StreamDecodeLimitJSONData.  The body is a sequence of lines, a line is  *)
(* described by what the decoders make of it:                              *)
(*   "header"   an object of type "header"                                 *)
(*   "ok"       an object of a known type that passes schema and decoding  *)
(*   "badjson"  not a JSON object                                          *)
(*   "notype"   an object without a "type" string                          *)
(*   "invalid"  an object of a known type that fails its schema            *)
(* ps.taken counts the lines that readers have taken from req.Body.        *)
(***************************************************************************)
PsLineKinds == {"header", "ok", "badjson", "notype", "invalid"}
PsBodies == Strings(PsLineKinds, MaxPsLines)
PsEncodings == {"", "gzip", "deflate"}

errNoTypeProperty == "missing 'type' property"
errUnknownType == "unknown 'type' supplied"

\* the lines a new reader can take from the body with its first fill
PsChunks == IF ps.taken = Len(ps.body) THEN {0} ELSE 1..(Len(ps.body) - ps.taken)

\* getDecompressionReader on what is left of req.Body: gzip.NewReader and
\* zlib.NewReader read the header of a compressed stream, which is at the
\* start of the body only; at the end of the body gzip.NewReader returns
\* io.EOF and zlib.NewReader io.ErrUnexpectedEOF
PsDecompressionReader ==
    IF ps.enc = ""
    THEN Nil
    ELSE IF ps.taken = Len(ps.body)
    THEN IF ps.enc = "gzip" THEN EOF ELSE "unexpected EOF"
    ELSE IF ps.taken = 0
    THEN Nil
    ELSE "invalid header"

\* one call of the decoder: DecoderStreamAdapter makes a new StreamReader
\* (sr is nil in every call), so readRequestJSONData wraps req.Body again;
\* StreamReader.Read returns every error of ReadBytes, io.EOF included, and
\* the new bufio.Reader keeps the k lines of its first fill
PsDecoder(k) ==
    IF ~ps.ct
    THEN [doc |-> Nil, err |-> "invalid content type", taken |-> ps.taken]
    ELSE IF PsDecompressionReader # Nil
    THEN [doc |-> Nil, err |-> PsDecompressionReader, taken |-> ps.taken + k]
    ELSE IF ps.taken = Len(ps.body)
    THEN [doc |-> Nil, err |-> EOF, taken |-> ps.taken]
    ELSE IF ps.taken + 1 = Len(ps.body) /\ ~ps.nl
    THEN [doc |-> Nil, err |-> EOF, taken |-> ps.taken + k]
    ELSE IF ps.body[ps.taken + 1] = "badjson"
    THEN [doc |-> Nil, err |-> WrapDataReadError("invalid character"),
          taken |-> ps.taken + k]
    ELSE [doc |-> ps.body[ps.taken + 1], err |-> Nil, taken |-> ps.taken + k]

\* getFromStream: decoder, the "type" property, validate, decode
getFromStream(k) ==
    LET d == PsDecoder(k)
    IN  IF d.err # Nil
        THEN [item |-> 0, err |-> d.err, taken |-> d.taken]
        ELSE IF d.doc = "notype"
        THEN [item |-> 0, err |-> errNoTypeProperty, taken |-> d.taken]
        ELSE IF d.doc = "header"
        THEN [item |-> 0, err |-> errUnknownType, taken |-> d.taken]
        ELSE IF d.doc = "invalid"
        THEN [item |-> 0, err |-> "schema", taken |-> d.taken]
        ELSE [item |-> ps.taken + 1, err |-> Nil, taken |-> d.taken]

PsFinish(res) == [ps EXCEPT !.pc = "done", !.resp = res]

\* sthandler up to the loop: the header line
PsHeader(k) ==
    /\ ps.pc = "start"
    /\ k \in PsChunks
    /\ LET d == PsDecoder(k)
       IN  ps' = IF d.err # Nil
                 THEN [PsFinish(headerDecodeResponse(d.err)) EXCEPT !.taken = d.taken]
                 ELSE IF d.doc # "header"
                 THEN [PsFinish(cannotValidateResponse("missing header"))
                           EXCEPT !.taken = d.taken]
                 ELSE [ps EXCEPT !.pc = "batch", !.taken = d.taken, !.batch = <<>>]
    /\ UNCHANGED <<baseVars, compVars, ch>>

\* batchedStreamProcessing: one turn of its loop
PsGetFromStream(k) ==
    /\ ps.pc = "batch"
    /\ k \in PsChunks
    /\ LET g == getFromStream(k)
       IN  ps' = IF g.err # Nil
                 THEN [ps EXCEPT !.pc = "batchDone", !.berr = g.err, !.taken = g.taken]
                 ELSE IF Len(ps.batch) + 1 >= ps.batchSize
                 THEN [ps EXCEPT !.pc = "batchDone", !.berr = Nil, !.taken = g.taken,
                                 !.batch = Append(@, g.item)]
                 ELSE [ps EXCEPT !.taken = g.taken, !.batch = Append(@, g.item)]
    /\ UNCHANGED <<baseVars, compVars, ch>>

\* the loop of sthandler after batchedStreamProcessing returned with an error
\* that ends the request
PsLoopExit(e) == e = EOF

\* the loop of sthandler after batchedStreamProcessing returned: return on
\* io.EOF, otherwise report the batch and go round again
PsBatchDone ==
    /\ ps.pc = "batchDone"
    /\ ps' = IF PsLoopExit(ps.berr)
             THEN PsFinish(okResponse)
             ELSE [ps EXCEPT !.pc = "batch", !.batch = <<>>, !.berr = Nil,
                             !.reports = Min(@ + 1, MaxPsReports)]
    /\ UNCHANGED <<baseVars, compVars, ch>>

InitPs ==
    /\ BaseIdle
    /\ CompIdle
    /\ ch = Unused
    /\ \E e \in PsEncodings, c \in BOOLEAN, b \in PsBodies, n \in BOOLEAN,
          bs \in 1..MaxPsBatch :
          ps = [pc |-> "start", enc |-> e, ct |-> c, body |-> b, nl |-> n, taken |-> 0,
                batchSize |-> bs, batch |-> <<>>, berr |-> Nil, reports |-> 0,
                resp |-> zeroResponse]

NextPs ==
    \/ \E k \in 0..MaxPsLines : PsHeader(k)
    \/ \E k \in 0..MaxPsLines : PsGetFromStream(k)
    \/ PsBatchDone

SpecPs == InitPs /\ [][NextPs]_vars
\* the handler keeps running until it returns
SpecPsFair == SpecPs /\ WF_vars(NextPs)

\* C39: processStreamRequest returns a response for every request.
C39_ReturnsResponse == <>(ps.pc = "done")

(***************************************************************************)
(* The chain of the RUM route: killSwitchHandler, concurrencyLimitHandler, *)
(* ipRateLimitHandler, corsHandler, the route handler.  The limiter and    *)
(* rate limiter of the chain are the ones modelled above; ch holds the     *)
(* configuration of the other two filters and, for every request, the      *)
(* place it has reached outside of those two.                              *)
(***************************************************************************)
ChainAllowOrigins == <<<<"a">>>>

\* a POST from an origin that is allowed and one from an origin that is not
ChainRequests ==
    {[PlainRequest EXCEPT !.origin = <<"a">>],
     [PlainRequest EXCEPT !.origin = <<"b">>]}

ChainNew == [at |-> "new", ip |-> 0, req |-> PlainRequest, code |-> 0, by |-> "none"]

\* the request has got an answer from the filter or handler named by
ChainWritten(r, outcome) ==
    [ch EXCEPT !.reqs[r] = [@ EXCEPT !.at = "written", !.code = outcome.code,
                                     !.by = outcome.by]]

\* the request arrives at killSwitchHandler, the outermost filter; requests
\* and IPs are interchangeable: requests arrive in the order of their
\* numbers, and so do the IPs that send them
ChainKillSwitch(r, ip, rq) ==
    /\ ch.reqs[r].at = "new"
    /\ \A q \in Reqs : q < r => ch.reqs[q].at # "new"
    /\ ip = 1 \/ \E q \in Reqs : q < r /\ ch.reqs[q].ip >= ip - 1
    /\ LET arrived == [ch EXCEPT !.reqs[r] = [@ EXCEPT !.ip = ip, !.req = rq]]
           outcome == killSwitchHandler(ch.enabled, rq)
       IN  ch' = IF outcome.invoked
                 THEN [arrived EXCEPT !.reqs[r].at = "limit"]
                 ELSE [arrived EXCEPT !.reqs[r] = [@ EXCEPT !.at = "killed",
                                                            !.code = outcome.code,
                                                            !.by = outcome.by]]
    /\ UNCHANGED <<baseVars, compVars, ps>>

\* concurrencyLimitHandler is what killSwitchHandler wraps
ChainLimit(r) ==
    /\ ch.reqs[r].at = "limit"
    /\ \/ Enter(r)
       \/ Tick(r)
       \/ Acquire(r)
       \/ Timeout(r)

ChainRateEnterBeforePermit(r) ==
    /\ ch.reqs[r].at = "limit"
    /\ pc[r] = "new"
    /\ rreq[r].pc = "new"
    /\ rreq' = [rreq EXCEPT ![r] = [@ EXCEPT !.pc = "contains", !.ip = ch.reqs[r].ip]]
    /\ UNCHANGED <<rateLimit, cache, limiters, cacheSize, evictList>>
    /\ UNCHANGED <<limiterVars, streamVars, mwVars, extVars>>

\* ipRateLimitHandler is what concurrencyLimitHandler wraps: it starts with
\* deny(utility.RemoteAddr(r)) when the permit is taken
ChainRateEnter(r) ==
    /\ ch.reqs[r].at = "limit"
    /\ pc[r] = "serving"
    /\ rreq[r].pc = "new"
    /\ rreq' = [rreq EXCEPT ![r] = [@ EXCEPT !.pc = "contains", !.ip = ch.reqs[r].ip]]
    /\ UNCHANGED <<rateLimit, cache, limiters, cacheSize, evictList>>
    /\ UNCHANGED <<limiterVars, streamVars, mwVars, extVars>>

\* deny, then 429 or the wrapped handler
ChainRate(r) ==
    /\ ch.reqs[r].at = "limit"
    /\ \/ RateContains(r)
       \/ RateAdd(r)
       \/ RateGet(r)
       \/ RateAllow(r)

\* corsHandler is what ipRateLimitHandler wraps
ChainCors(r) ==
    /\ ch.reqs[r].at = "limit"
    /\ rreq[r].pc = "passed"
    /\ LET outcome == corsHandler(ch.allowOrigins, ch.reqs[r].req)
       IN  ch' = IF outcome.invoked
                 THEN [ch EXCEPT !.reqs[r].at = "handler"]
                 ELSE ChainWritten(r, outcome)
    /\ UNCHANGED <<baseVars, compVars, ps>>

\* the route handler is what corsHandler wraps
ChainHandler(r) ==
    /\ ch.reqs[r].at = "handler"
    /\ ch' = ChainWritten(r, [code |-> acceptedResponse.code, by |-> "handler"])
    /\ UNCHANGED <<baseVars, compVars, ps>>

\* ipRateLimitHandler returns after its 429, or after the handler it wraps
\* returned or panicked: the deferred release of concurrencyLimitHandler
ChainReturn(r) ==
    /\ \/ rreq[r].pc \in {"denied", "panicked"}
       \/ ch.reqs[r].at = "written"
    /\ Return(r)

InitChain ==
    /\ MwIdle
    /\ CompIdle
    /\ ps = Unused
    /\ ConcurrentRequests \in 1..MaxPermits
    /\ LimiterIdle
    /\ contentType = TRUE
    /\ stream = <<>>
    /\ trailingNewline = FALSE
    /\ method = "POST"
    /\ HandlerIdle
    /\ rateLimit \in 1..MaxRateLimit
    /\ RateIdle
    /\ \E e \in BOOLEAN :
          ch = [pc |-> "chain", enabled |-> e, allowOrigins |-> ChainAllowOrigins,
                reqs |-> [r \in Reqs |-> ChainNew]]

NextChain ==
    \/ \E r \in Reqs, ip \in IPs, rq \in ChainRequests : ChainKillSwitch(r, ip, rq)
    \/ \E r \in Reqs : ChainLimit(r)
    \/ \E r \in Reqs : ChainRateEnter(r)
    \/ \E r \in Reqs : ChainRate(r)
    \/ \E r \in Reqs : ChainCors(r)
    \/ \E r \in Reqs : ChainHandler(r)
    \/ \E r \in Reqs : ChainReturn(r)

SpecChain == InitChain /\ [][NextChain]_vars

RECURSIVE TokensTaken(_)
\* the tokens taken from the first n limiters that were made
TokensTaken(n) ==
    IF n = 0 THEN 0
    ELSE TokensTaken(n - 1) + (NewLimiter(rateLimit) - limiters[n].tokens)

\* the request got its answer from a filter or handler inside the limiter
\* and the limiter has not returned yet
AnsweredInside(r) ==
    /\ pc[r] = "serving"
    /\ \/ rreq[r].pc = "denied"
       \/ ch.reqs[r].at = "written"

\* C31 (state part): a request the kill-switch answered 403 has no permit and
\* never reached the rate limiter; a request answered 503 never reached the
\* rate limiter; deny runs, cache entries and limiters are made and tokens
\* are taken only for requests that got a permit; CORS and the route handler
\* see only requests the rate limiter passed; a request answered 429 or by
\* CORS got its permit and has released it once the limiter returned.
ChainFrame ==
    /\ \A r \in Reqs :
          /\ ch.reqs[r].at = "killed" =>
                /\ ch.reqs[r].code = StatusForbidden
                /\ pc[r] = "new" /\ acquired[r] = 0 /\ rreq[r].pc = "new"
          /\ pc[r] = "rejected" =>
                /\ status[r] = StatusServiceUnavailable
                /\ acquired[r] = 0 /\ rreq[r].pc = "new" /\ ch.reqs[r].at = "limit"
          /\ rreq[r].pc # "new" => acquired[r] = 1 /\ pc[r] \in {"serving", "returned"}
          /\ ch.reqs[r].at \in {"handler", "written"} => rreq[r].pc = "passed"
          /\ rreq[r].pc = "denied" =>
                rreq[r].code = StatusTooManyRequests /\ ch.reqs[r].at = "limit"
          /\ pc[r] = "returned" =>
                /\ released[r] = 1
                /\ rreq[r].pc = "denied" \/ ch.reqs[r].at = "written"
    /\ TokensTaken(Len(limiters)) = Cardinality({r \in Reqs : rreq[r].pc = "passed"})
    /\ \A k \in 1..Len(limiters) :
          \E r \in Reqs : ch.reqs[r].ip = limiters[k].ip /\ acquired[r] = 1
    /\ semaphore = Cardinality({r \in Reqs : pc[r] = "serving"})

\* C31 (step part): once the answer is written inside the limiter, the next
\* thing that happens to the request is the release of its permit
ChainReleaseNext ==
    \A r \in Reqs :
        (AnsweredInside(r) /\ <<pc[r], rreq[r], ch.reqs[r]>>' # <<pc[r], rreq[r], ch.reqs[r]>>)
            => /\ pc'[r] = "returned"
               /\ released'[r] = 1
               /\ semaphore' = semaphore - 1
               /\ rreq'[r] = rreq[r]
               /\ ch'.reqs[r] = ch.reqs[r]

\* C31: on the RUM chain a filter acts on a request only if every filter
\* before it let the request through: no permit and no rate-limit token for
\* a request the kill-switch answered 403, no rate-limit token for a request
\* answered 503, and a request answered 429 or 403 further down holds its
\* permit until that answer is written and releases it then.
C31_ChainOrder == []ChainFrame /\ [][ChainReleaseNext]_vars

\* C31 witness: one request was answered 429 and one 403 by corsHandler,
\* both have released their permit
C31_Witness ==
    /\ ch.pc = "chain"
    /\ \E r \in Reqs : rreq[r].pc = "denied" /\ pc[r] = "returned" /\ released[r] = 1
    /\ \E r \in Reqs : ch.reqs[r].by = "cors" /\ ch.reqs[r].code = StatusForbidden
                          /\ pc[r] = "returned" /\ released[r] = 1

====
